---- MODULE Spec2Model ----
(***************************************************************************)
(* A model of the Bril middle-end of the cs6120 repository: the CFG        *)
(* builder and its edge-maintenance primitives (lesson2/build-cfg), local  *)
(* value numbering (lesson3/lvn), the dataflow driver with reaching        *)
(* definitions (lesson4/dataflow), the dominator analyses                  *)
(* (lesson5/dominators) and the SSA transforms (lesson6/ssa).              *)
(***************************************************************************)
EXTENDS Integers, Sequences, FiniteSets, TLC

VARIABLES
    pc,               \* where the run of the tool stands
    function,         \* build_cfg: the input instruction sequence
    prune,            \* build_cfg: the prune flag
    cfg,              \* the FunctionCfg
    lvn_block,        \* lvn: block.instructions, rewritten in place
    lvn_input,        \* lvn: block.instructions as they came in
    lvn_table,        \* lvn: table, the ValueTable
    lvn_last,         \* lvn: last_assignment
    lvn_i,            \* lvn: index i of the instruction the main loop is at
    arguments,        \* cfg.signature.arguments (the parameter names)
    df_blocks,        \* solve_dataflow: blocks, the worklist
    df_solution,      \* solve_dataflow: solution
    df_initial_in,    \* solve_dataflow: initial_in
    reverse_postorder, \* compute_dominators: reverse_postorder
    dominators,       \* compute_dominators: dominators
    needs_update,     \* compute_dominators: needs_update
    dom_i,            \* compute_dominators: position of the for loop
    frontiers,        \* compute_dominance_frontiers: frontiers
    definition_sites, \* ssa main: definition_sites
    phi_insertion_points, \* ssa main: phi_insertion_points
    from_ssa_result,  \* ssa main: what from_ssa returned
    tdce_origin,      \* tdce: per block, the index each remaining
                      \* instruction had in the block build_cfg made
    dominance_tree,   \* loop-opt main: dominance_tree
    back_edges,       \* loop-opt main: back_edges
    natural_loops,    \* loop-opt main: natural_loops
    natural_loops_with_preheaders, \* loop-opt main: the vector of that name
    loop_next,        \* loop-opt main: index of the natural loop the
                      \* preheader loop handles next
    reaching_definitions, \* loop-opt main: reaching_definitions
    loop_invariant,   \* loop-opt main: loop_invariant
    licm_next,        \* loop-opt main: index of the loop the code-motion
                      \* loop handles next
    licm_moved        \* per handled loop, the (block, index, instruction)
                      \* records of what was moved, in the order of the moves,
                      \* each with the CFG the decision to move it was made on

cfgVars == <<function, prune, cfg>>

lvnVars == <<lvn_block, lvn_input, lvn_table, lvn_last, lvn_i>>

dfVars == <<arguments, df_blocks, df_solution, df_initial_in>>

domVars == <<reverse_postorder, dominators, needs_update, dom_i, frontiers>>

ssaVars == <<definition_sites, phi_insertion_points, from_ssa_result>>

tdceVars == <<tdce_origin>>

loopVars ==
    <<dominance_tree, back_edges, natural_loops,
      natural_loops_with_preheaders, loop_next>>

licmVars ==
    <<reaching_definitions, loop_invariant, licm_next, licm_moved>>

vars ==
    <<pc, cfgVars, lvnVars, dfVars, domVars, ssaVars, tdceVars, loopVars,
      licmVars>>

\* the variables the CFG builder and the edge primitives do not touch
notCfg ==
    <<lvnVars, dfVars, domVars, ssaVars, tdceVars,
      loopVars, licmVars>>

\* the variables lvn does not touch
notLvn ==
    <<cfgVars, dfVars, domVars, ssaVars, tdceVars,
      loopVars, licmVars>>

\* the variables the dataflow solver does not touch
notDf ==
    <<cfgVars, lvnVars, domVars, ssaVars, tdceVars,
      loopVars, licmVars>>

\* the variables the dominator computations do not touch
notDom ==
    <<cfgVars, lvnVars, dfVars, ssaVars, tdceVars,
      loopVars, licmVars>>

\* the variables the SSA passes do not touch, the CFG and pc aside
notSsa ==
    <<function, prune, lvnVars, dfVars, domVars, tdceVars,
      loopVars, licmVars>>

\* the variables the dead code elimination does not touch, the CFG and pc
\* aside
notTdce ==
    <<function, prune, lvnVars, dfVars, domVars, ssaVars,
      loopVars, licmVars>>

\* the variables the loop optimizer does not touch, the CFG, the dominators
\* and pc aside
notLoop ==
    <<function, prune, lvnVars, dfVars, ssaVars, tdceVars, licmVars>>

(***************************************************************************)
(* Bounds of the model.                                                    *)
(***************************************************************************)
\* longest input instruction sequence handed to build_cfg
MaxCode == 4

\* label names that occur in input programs
LabelNames == {"a", "b"}

(***************************************************************************)
(* Generic helpers: Option<T> is a sequence of length <= 1, a SecondaryMap *)
(* or HashMap is a function whose DOMAIN is the set of keys present.       *)
(***************************************************************************)
None == <<>>

Some(x) == <<x>>

EmptyMap == <<>>

MapPut(m, k, v) == [x \in (DOMAIN m) \cup {k} |-> IF x = k THEN v ELSE m[x]]

Restrict(m, keys) == [x \in (DOMAIN m) \cap keys |-> m[x]]

SeqToSet(s) == {s[i] : i \in DOMAIN s}

Contains(s, x) == \E i \in DOMAIN s : s[i] = x

\* number of occurrences of x in the sequence s
Count(s, x) == Cardinality({i \in DOMAIN s : s[i] = x})

\* Vec::retain(|e| e != x)
Without(s, x) == LET keep(e) == e # x IN SelectSeq(s, keep)

\* all sequences over S of length at most n
SeqsUpTo(S, n) == UNION {[1..k -> S] : k \in 0..n}

(***************************************************************************)
(* bril_rs::Code / Instruction.  Every instruction has the same record     *)
(* shape; fields that a variant does not have are empty.                   *)
(***************************************************************************)
\* bril_rs::Literal: the variant and the number
IntLit(n) == [kind |-> "Int", n |-> n]

FloatLit(n) == [kind |-> "Float", n |-> n]

NoLiteral == [kind |-> "None", n |-> 0]

CodeLabel(l) ==
    [kind |-> "label", op |-> "", dest |-> "", type |-> "", args |-> <<>>,
     labels |-> <<l>>, value |-> NoLiteral]

Effect(o, as, ls) ==
    [kind |-> "effect", op |-> o, dest |-> "", type |-> "", args |-> as,
     labels |-> ls, value |-> NoLiteral]

Value(d, ty, o, as) ==
    [kind |-> "value", op |-> o, dest |-> d, type |-> ty, args |-> as,
     labels |-> <<>>, value |-> NoLiteral]

Constant(d, ty, v) ==
    [kind |-> "const", op |-> "const", dest |-> d, type |-> ty, args |-> <<>>,
     labels |-> <<>>, value |-> v]

(***************************************************************************)
(* LabeledExit and Exit (lesson2/build-cfg/src/lib.rs).                    *)
(***************************************************************************)
LFallthrough == [tag |-> "Fallthrough", cond |-> None, labels |-> <<>>]

LUnconditional(l) == [tag |-> "Unconditional", cond |-> None, labels |-> <<l>>]

LConditional(c, t, f) ==
    [tag |-> "Conditional", cond |-> Some(c), labels |-> <<t, f>>]

LReturn(v) == [tag |-> "Return", cond |-> v, labels |-> <<>>]

EFallthrough(dst) == [tag |-> "Fallthrough", cond |-> None, targets |-> dst]

EUnconditional(d) == [tag |-> "Unconditional", cond |-> None, targets |-> <<d>>]

EConditional(c, t, f) ==
    [tag |-> "Conditional", cond |-> Some(c), targets |-> <<t, f>>]

EReturn(v) == [tag |-> "Return", cond |-> v, targets |-> <<>>]

\* BasicBlock::default()
DefaultBlock ==
    [is_entry |-> FALSE, label |-> None, instructions |-> <<>>,
     exit |-> LFallthrough]

\* BasicBlock::index_before_exit, as an index into a 1-based sequence: the
\* position at which an instruction inserted "before the exit" lands
IndexBeforeExit(block) ==
    IF block.exit.tag = "Fallthrough"
    THEN Len(block.instructions) + 1
    ELSE Len(block.instructions)

\* FunctionCfg::successors
Successors(g, block) == g.edges[block].targets

\* FunctionCfg::predecessors
Predecessors(g, block) ==
    IF block \in DOMAIN g.rev_edges THEN g.rev_edges[block] ELSE <<>>

(***************************************************************************)
(* FunctionCfgBuilder.  Block handles are the slot numbers 1, 2, ... in    *)
(* insertion order, which is also the iteration order of the SlotMap.      *)
(***************************************************************************)
NewBuilder ==
    [vertices |-> <<>>, entry |-> 0, entry_is_init |-> FALSE,
     current_block |-> DefaultBlock, labels_to_blocks |-> EmptyMap,
     previous_idx |-> None, input_block_order |-> EmptyMap, err |-> FALSE]

AddToCurrent(b, instruction) ==
    [b EXCEPT !.current_block.instructions = Append(@, instruction)]

SetCurrentLabel(b, name) == [b EXCEPT !.current_block.label = Some(name)]

SetCurrentExit(b, exit) == [b EXCEPT !.current_block.exit = exit]

MarkCurrentAsEntry(b) == [b EXCEPT !.current_block.is_entry = TRUE]

FinishCurrentAndStartNewBlock(b) ==
    LET current_label == b.current_block.label
        block_idx == Len(b.vertices) + 1
    IN  [b EXCEPT
           !.vertices = Append(@, b.current_block),
           !.current_block = DefaultBlock,
           !.entry = IF b.entry_is_init THEN @ ELSE block_idx,
           !.entry_is_init = TRUE,
           !.input_block_order =
               IF b.previous_idx # None
               THEN MapPut(@, b.previous_idx[1], block_idx)
               ELSE @,
           !.previous_idx = Some(block_idx),
           !.labels_to_blocks =
               IF current_label # None
               THEN MapPut(@, current_label[1], block_idx)
               ELSE @]

Fail(b) == [b EXCEPT !.err = TRUE]

\* the body of the loop over function.instrs in build_cfg
BuildOne(b, code) ==
    IF code.kind = "label" THEN
        SetCurrentLabel(
            IF b.current_block.instructions # <<>> \/ b.current_block.label # None
            THEN FinishCurrentAndStartNewBlock(b)
            ELSE b,
            code.labels[1])
    ELSE IF code.kind = "effect" /\ code.op = "jmp" THEN
        IF Len(code.labels) # 1 THEN Fail(AddToCurrent(b, code))
        ELSE FinishCurrentAndStartNewBlock(
                SetCurrentExit(AddToCurrent(b, code),
                               LUnconditional(code.labels[1])))
    ELSE IF code.kind = "effect" /\ code.op = "br" THEN
        IF Len(code.args) # 1 \/ Len(code.labels) # 2
        THEN Fail(AddToCurrent(b, code))
        ELSE FinishCurrentAndStartNewBlock(
                SetCurrentExit(AddToCurrent(b, code),
                               LConditional(code.args[1], code.labels[1],
                                            code.labels[2])))
    ELSE IF code.kind = "effect" /\ code.op = "ret" THEN
        IF Len(code.args) > 1 \/ code.labels # <<>>
        THEN Fail(AddToCurrent(b, code))
        ELSE FinishCurrentAndStartNewBlock(
                SetCurrentExit(AddToCurrent(b, code), LReturn(code.args)))
    ELSE AddToCurrent(b, code)

RECURSIVE BuildLoop(_, _, _)
BuildLoop(b, instrs, i) ==
    IF b.err \/ i > Len(instrs) THEN b
    ELSE BuildLoop(BuildOne(b, instrs[i]), instrs, i + 1)

\* rev_edges.entry(k).or_default().push(v)
RevPush(rev, k, v) ==
    MapPut(rev, k, IF k \in DOMAIN rev THEN Append(rev[k], v) ELSE <<v>>)

\* the resolution loop of FunctionCfgBuilder::finish: st carries edges,
\* rev_edges and the error flag while the blocks are visited in slot order
RECURSIVE Resolve(_, _, _)
Resolve(b, st, block_idx) ==
    IF st.err \/ block_idx > Len(b.vertices) THEN st
    ELSE
      LET exit == b.vertices[block_idx].exit
          known(l) == l \in DOMAIN b.labels_to_blocks
          idx(l) == b.labels_to_blocks[l]
      IN
      IF exit.tag = "Fallthrough" THEN
          LET after == IF block_idx \in DOMAIN b.input_block_order
                       THEN Some(b.input_block_order[block_idx])
                       ELSE None
          IN Resolve(b,
                 [st EXCEPT
                    !.edges = MapPut(@, block_idx, EFallthrough(after)),
                    !.rev_edges = IF after # None
                                  THEN RevPush(@, after[1], block_idx)
                                  ELSE @],
                 block_idx + 1)
      ELSE IF exit.tag = "Unconditional" THEN
          IF ~known(exit.labels[1]) THEN [st EXCEPT !.err = TRUE]
          ELSE Resolve(b,
                 [st EXCEPT
                    !.edges = MapPut(@, block_idx,
                                     EUnconditional(idx(exit.labels[1]))),
                    !.rev_edges = RevPush(@, idx(exit.labels[1]), block_idx)],
                 block_idx + 1)
      ELSE IF exit.tag = "Conditional" THEN
          IF ~known(exit.labels[1]) \/ ~known(exit.labels[2])
          THEN [st EXCEPT !.err = TRUE]
          ELSE Resolve(b,
                 [st EXCEPT
                    !.edges = MapPut(@, block_idx,
                                     EConditional(exit.cond[1],
                                                  idx(exit.labels[1]),
                                                  idx(exit.labels[2]))),
                    !.rev_edges = RevPush(RevPush(@, idx(exit.labels[1]),
                                                  block_idx),
                                          idx(exit.labels[2]), block_idx)],
                 block_idx + 1)
      ELSE Resolve(b,
                 [st EXCEPT !.edges = MapPut(@, block_idx, EReturn(exit.cond))],
                 block_idx + 1)

\* the vertices.retain closure of the pruning step of finish
PruneKeeps(entry, rev_edges, idx) ==
    IF idx = entry THEN TRUE
    ELSE IF idx \in DOMAIN rev_edges THEN rev_edges[idx] # <<>>
    ELSE FALSE

\* the pruning step of FunctionCfgBuilder::finish
Prune(g) ==
    LET kept == {idx \in DOMAIN g.vertices :
                    PruneKeeps(g.entry, g.rev_edges, idx)}
        live(idx) == idx \in kept
    IN  [g EXCEPT
           !.vertices = Restrict(@, kept),
           !.edges = Restrict(@, kept),
           !.rev_edges = [idx \in (DOMAIN @) \cap kept |->
                             SelectSeq(@[idx], live)]]

\* FunctionCfgBuilder::finish
Finish(b, pr) ==
    LET st == Resolve(b, [edges |-> EmptyMap, rev_edges |-> EmptyMap,
                          err |-> FALSE], 1)
        g  == [entry |-> b.entry,
               vertices |-> [idx \in 1..Len(b.vertices) |-> b.vertices[idx]],
               edges |-> st.edges, rev_edges |-> st.rev_edges]
    IN  IF st.err THEN [ok |-> FALSE, cfg |-> <<>>]
        ELSE [ok |-> TRUE, cfg |-> IF pr THEN Prune(g) ELSE g]

\* build_cfg(function, prune): Ok(cfg) or Err
BuildCfgOf(instrs, pr) ==
    LET b == BuildLoop(MarkCurrentAsEntry(NewBuilder), instrs, 1)
    IN  IF b.err THEN [ok |-> FALSE, cfg |-> <<>>]
        ELSE Finish(FinishCurrentAndStartNewBlock(b), pr)

(***************************************************************************)
(* The CFG builder as a state machine: an input function is chosen, then   *)
(* build_cfg runs on it.                                                   *)
(***************************************************************************)
\* the instructions input programs are made of
CodeItems ==
    {CodeLabel(l) : l \in LabelNames}
      \cup {Effect("jmp", <<>>, <<l>>) : l \in LabelNames}
      \cup {Effect("jmp", <<>>, <<>>)}
      \cup {Effect("br", <<"c">>, <<t, f>>) : t \in LabelNames, f \in LabelNames}
      \cup {Effect("ret", <<>>, <<>>), Effect("nop", <<>>, <<>>)}

NoCfg == <<>>

\* the state of the tools that are not running
CfgIdle == function = <<>> /\ prune = FALSE /\ cfg = NoCfg

LvnIdle ==
    /\ lvn_block = <<>>
    /\ lvn_input = <<>>
    /\ lvn_table = <<>>
    /\ lvn_last = <<>>
    /\ lvn_i = 0

DfIdle ==
    /\ arguments = <<>>
    /\ df_blocks = <<>>
    /\ df_solution = <<>>
    /\ df_initial_in = {}

DomIdle ==
    /\ reverse_postorder = <<>>
    /\ dominators = <<>>
    /\ needs_update = FALSE
    /\ dom_i = 0
    /\ frontiers = <<>>

SsaIdle ==
    /\ definition_sites = <<>>
    /\ phi_insertion_points = <<>>
    /\ from_ssa_result = "none"

TdceIdle == tdce_origin = <<>>

LoopIdle ==
    /\ dominance_tree = <<>>
    /\ back_edges = <<>>
    /\ natural_loops = <<>>
    /\ natural_loops_with_preheaders = <<>>
    /\ loop_next = 0

LicmIdle ==
    /\ reaching_definitions = <<>>
    /\ loop_invariant = <<>>
    /\ licm_next = 0
    /\ licm_moved = <<>>

InitBuild ==
    /\ pc = "start"
    /\ function \in SeqsUpTo(CodeItems, MaxCode)
    /\ prune \in BOOLEAN
    /\ cfg = NoCfg
    /\ LvnIdle
    /\ DfIdle
    /\ DomIdle
    /\ SsaIdle
    /\ TdceIdle
    /\ LoopIdle
    /\ LicmIdle

BuildCfg ==
    /\ pc = "start"
    /\ LET r == BuildCfgOf(function, prune)
       IN  /\ pc' = IF r.ok THEN "built" ELSE "error"
           /\ cfg' = r.cfg
    /\ UNCHANGED <<function, prune, notCfg>>

NextBuild == BuildCfg

SpecBuild == InitBuild /\ [][NextBuild]_vars

(***************************************************************************)
(* The edge-maintenance primitives of FunctionCfg.                         *)
(***************************************************************************)
Jump(label_name) == Effect("jmp", <<>>, <<label_name>>)

Branch(condition, t, f) == Effect("br", <<condition>>, <<t, f>>)

\* *instructions.last_mut() = instruction
SetLast(instructions, instruction) ==
    [instructions EXCEPT ![Len(instructions)] = instruction]

\* rev_edges.entry(k).or_default(), then push(v) unless contains(v)
RevInsertOnce(rev, k, v) ==
    IF k \in DOMAIN rev
    THEN (IF Contains(rev[k], v) THEN rev ELSE [rev EXCEPT ![k] = Append(@, v)])
    ELSE MapPut(rev, k, <<v>>)

\* what FunctionCfg::reorient_edge needs in order not to panic
CanReorientEdge(g, start_block, old_end_block, end_block) ==
    \/ g.edges[start_block].tag = "Return"
    \/ /\ g.vertices[end_block].label # None
       /\ old_end_block \in DOMAIN g.rev_edges
       /\ g.vertices[start_block].instructions # <<>>

\* FunctionCfg::reorient_edge
ReorientEdge(g, start_block, old_end_block, end_block) ==
    IF g.edges[start_block].tag = "Return" THEN g
    ELSE
      LET end_label == g.vertices[end_block].label[1]
          rev == RevInsertOnce(
                    [g.rev_edges EXCEPT
                       ![old_end_block] = Without(@, start_block)],
                    end_block, start_block)
          exit == g.vertices[start_block].exit
          old == g.edges[start_block]
      IN
      IF exit.tag = "Unconditional" THEN
          [g EXCEPT
             !.rev_edges = rev,
             !.vertices[start_block].instructions =
                 SetLast(@, Jump(end_label)),
             !.edges[start_block] = EUnconditional(end_block)]
      ELSE IF exit.tag = "Conditional" THEN
          LET hit == old_end_block = old.targets[1]
              new_if_true_label == IF hit THEN end_label ELSE exit.labels[1]
              new_if_false_label == IF hit THEN exit.labels[2] ELSE end_label
              new_if_true == IF hit THEN end_block ELSE old.targets[1]
              new_if_false == IF hit THEN old.targets[2] ELSE end_block
          IN [g EXCEPT
                !.rev_edges = rev,
                !.vertices[start_block].instructions =
                    SetLast(@, Branch(old.cond[1], new_if_true_label,
                                      new_if_false_label)),
                !.edges[start_block] =
                    EConditional(old.cond[1], new_if_true, new_if_false)]
      ELSE [g EXCEPT !.rev_edges = rev]

\* what FunctionCfg::set_unconditional_edge needs in order not to panic
CanSetUnconditionalEdge(g, start_block, end_block) ==
    /\ g.vertices[start_block].exit.tag \in {"Fallthrough", "Unconditional"}
    /\ g.vertices[end_block].label # None

\* FunctionCfg::set_unconditional_edge
SetUnconditionalEdge(g, start_block, end_block) ==
    LET end_label == g.vertices[end_block].label[1]
        exit == g.vertices[start_block].exit
    IN  [g EXCEPT
           !.vertices[start_block].instructions =
               IF exit.tag = "Fallthrough"
               THEN Append(@, Jump(end_label))
               ELSE SetLast(@, Jump(end_label)),
           !.vertices[start_block].exit = LUnconditional(end_label),
           !.edges = MapPut(@, start_block, EUnconditional(end_block)),
           !.rev_edges = RevInsertOnce(@, end_block, start_block)]

\* the body of the loop of FunctionCfg::make_fallthroughs_explicit
ExplicitOne(g, block_idx) ==
    IF g.edges[block_idx].tag # "Fallthrough" THEN g
    ELSE IF g.edges[block_idx].targets # None THEN
        LET destination == g.edges[block_idx].targets[1]
            label == g.vertices[destination].label[1]
        IN [g EXCEPT
              !.vertices[block_idx].exit = LUnconditional(label),
              !.edges[block_idx] = EUnconditional(destination),
              !.vertices[block_idx].instructions = Append(@, Jump(label))]
    ELSE [g EXCEPT
            !.vertices[block_idx].exit = LReturn(None),
            !.edges[block_idx] = EReturn(None),
            !.vertices[block_idx].instructions =
                Append(@, Effect("ret", <<>>, <<>>))]

\* the keys of a map in ascending order (SlotMap iteration order)
RECURSIVE SortedKeys(_)
SortedKeys(S) ==
    IF S = {} THEN <<>>
    ELSE LET m == CHOOSE x \in S : \A y \in S : x <= y
         IN  <<m>> \o SortedKeys(S \ {m})

RECURSIVE ExplicitLoop(_, _, _)
ExplicitLoop(g, keys, i) ==
    IF i > Len(keys) THEN g
    ELSE ExplicitLoop(ExplicitOne(g, keys[i]), keys, i + 1)

\* FunctionCfg::make_fallthroughs_explicit
MakeFallthroughsExplicitOf(g) ==
    ExplicitLoop(g, SortedKeys(DOMAIN g.vertices), 1)

\* FunctionCfg::assert_no_fallthroughs
NoFallthroughs(g) ==
    \A block_idx \in DOMAIN g.vertices :
        /\ g.vertices[block_idx].exit.tag # "Fallthrough"
        /\ block_idx \in DOMAIN g.edges =>
              g.edges[block_idx].tag # "Fallthrough"

(***************************************************************************)
(* A client of the CFG: build it, make the fallthroughs explicit, then     *)
(* redirect edges with the two primitives.                                 *)
(***************************************************************************)
\* longest input instruction sequence of the edge-maintenance runs
MaxEditCode == 3

EditItems ==
    {CodeLabel(l) : l \in LabelNames}
      \cup {Effect("jmp", <<>>, <<l>>) : l \in LabelNames}
      \cup {Effect("br", <<"c">>, <<t, f>>) : t \in LabelNames, f \in LabelNames}
      \cup {Effect("ret", <<>>, <<>>), Effect("nop", <<>>, <<>>)}

InitEdit ==
    /\ pc = "start"
    /\ function \in SeqsUpTo(EditItems, MaxEditCode)
    /\ prune \in BOOLEAN
    /\ cfg = NoCfg
    /\ LvnIdle
    /\ DfIdle
    /\ DomIdle
    /\ SsaIdle
    /\ TdceIdle
    /\ LoopIdle
    /\ LicmIdle

MakeFallthroughsExplicit ==
    /\ pc = "built"
    /\ cfg' = MakeFallthroughsExplicitOf(cfg)
    /\ pc' = "explicit"
    /\ UNCHANGED <<function, prune, notCfg>>

DoReorientEdge ==
    /\ pc = "explicit"
    /\ \E start_block \in DOMAIN cfg.vertices :
       \E old_end_block \in SeqToSet(Successors(cfg, start_block)) :
       \E end_block \in DOMAIN cfg.vertices :
          /\ CanReorientEdge(cfg, start_block, old_end_block, end_block)
          /\ cfg' = ReorientEdge(cfg, start_block, old_end_block, end_block)
    /\ UNCHANGED <<pc, function, prune, notCfg>>

DoSetUnconditionalEdge ==
    /\ pc = "explicit"
    /\ \E start_block \in DOMAIN cfg.vertices :
       \E end_block \in DOMAIN cfg.vertices :
          /\ CanSetUnconditionalEdge(cfg, start_block, end_block)
          /\ cfg' = SetUnconditionalEdge(cfg, start_block, end_block)
    /\ UNCHANGED <<pc, function, prune, notCfg>>

NextEdit ==
    \/ BuildCfg
    \/ MakeFallthroughsExplicit
    \/ DoReorientEdge
    \/ DoSetUnconditionalEdge

SpecEdit == InitEdit /\ [][NextEdit]_vars

(***************************************************************************)
(* Graph notions the claims are stated with.                               *)
(***************************************************************************)
\* the blocks reachable from the blocks of `seen` along forward edges
RECURSIVE ReachableFrom(_, _)
ReachableFrom(g, seen) ==
    LET next == seen \cup
                 UNION {SeqToSet(Successors(g, v)) \cap DOMAIN g.vertices :
                          v \in seen}
    IN  IF next = seen THEN seen ELSE ReachableFrom(g, next)

Reachable(g) == ReachableFrom(g, {g.entry})

\* C1 (as claimed): after build_cfg returns Ok, p is listed in rev_edges[b]
\* exactly once if b is a successor of p, and not at all otherwise
C1_RevEdgesMirrorEdgesOnce ==
    pc = "built" =>
        \A p \in DOMAIN cfg.vertices : \A b \in DOMAIN cfg.vertices :
            Count(Predecessors(cfg, b), p)
                = IF Contains(Successors(cfg, p), b) THEN 1 ELSE 0

\* C3 (as claimed): with prune=true every block left in vertices is
\* reachable from the entry, and edges/rev_edges mention remaining blocks only
C3_PrunedCfgIsReachable ==
    (pc = "built" /\ prune) =>
        /\ DOMAIN cfg.vertices \subseteq Reachable(cfg)
        /\ DOMAIN cfg.edges \subseteq DOMAIN cfg.vertices
        /\ DOMAIN cfg.rev_edges \subseteq DOMAIN cfg.vertices
        /\ \A b \in DOMAIN cfg.edges :
              SeqToSet(cfg.edges[b].targets) \subseteq DOMAIN cfg.vertices
        /\ \A b \in DOMAIN cfg.rev_edges :
              SeqToSet(cfg.rev_edges[b]) \subseteq DOMAIN cfg.vertices

\* the trailing instruction, the LabeledExit and the resolved Exit of a block
\* name the same terminator with the same labels
TerminatorMatches(g, block_idx) ==
    LET block == g.vertices[block_idx]
        exit == block.exit
        edge == g.edges[block_idx]
        last == block.instructions[Len(block.instructions)]
        target_label(i) == g.vertices[edge.targets[i]].label
    IN  /\ block.instructions # <<>>
        /\ last.kind = "effect"
        /\ edge.tag = exit.tag
        /\ exit.tag = "Unconditional" =>
              /\ last.op = "jmp"
              /\ last.labels = exit.labels
              /\ target_label(1) = Some(exit.labels[1])
        /\ exit.tag = "Conditional" =>
              /\ last.op = "br"
              /\ last.args = exit.cond
              /\ edge.cond = exit.cond
              /\ last.labels = exit.labels
              /\ target_label(1) = Some(exit.labels[1])
              /\ target_label(2) = Some(exit.labels[2])
        /\ exit.tag = "Return" =>
              /\ last.op = "ret"
              /\ last.args = exit.cond
              /\ edge.cond = exit.cond

\* C2 (as claimed): after make_fallthroughs_explicit and any sequence of
\* reorient_edge / set_unconditional_edge calls, every block whose exit is
\* not Fallthrough ends with the terminator matching its exit, and the
\* labels of the instruction, of the LabeledExit and of the target blocks
\* in edges agree
C2_TerminatorMatchesExit ==
    pc = "explicit" =>
        \A block_idx \in DOMAIN cfg.vertices :
            cfg.vertices[block_idx].exit.tag # "Fallthrough" =>
                TerminatorMatches(cfg, block_idx)

(***************************************************************************)
(* Local value numbering (lesson3/lvn/src/main.rs).                        *)
(***************************************************************************)
\* longest block handed to lvn
MaxBlock == 3

\* the variable names of input blocks, in the order of String's Ord
VarNames == <<"x", "y">>

Vars == SeqToSet(VarNames)

\* enum OpArg
ArgValue(n) == [tag |-> "Value", index |-> n, name |-> ""]

ArgUnknown(name) == [tag |-> "Unknown", index |-> 0, name |-> name]

\* String's Ord on the names of the input (position in VarNames)
NameRank(name) == CHOOSE k \in DOMAIN VarNames : VarNames[k] = name

\* #[derive(PartialOrd, Ord)] on OpArg: every Value is below every Unknown,
\* two of the same variant compare by their payload
OpArgLess(a, b) ==
    IF a.tag # b.tag THEN a.tag = "Value"
    ELSE IF a.tag = "Value" THEN a.index < b.index
    ELSE NameRank(a.name) < NameRank(b.name)

\* Vec::sort (stable) on a Vec<OpArg>, by insertion
RECURSIVE InsertSorted(_, _)
InsertSorted(sorted, a) ==
    IF sorted = <<>> THEN <<a>>
    ELSE IF OpArgLess(a, Head(sorted)) THEN <<a>> \o sorted
    ELSE <<Head(sorted)>> \o InsertSorted(Tail(sorted), a)

RECURSIVE SortArgs(_)
SortArgs(args) ==
    IF args = <<>> THEN <<>>
    ELSE InsertSorted(SortArgs(SubSeq(args, 1, Len(args) - 1)),
                      args[Len(args)])

\* enum Value
VFloat(lit) == [tag |-> "Float", lit |-> lit, op |-> "", args |-> <<>>]

VOtherConst(lit) == [tag |-> "OtherConst", lit |-> lit, op |-> "", args |-> <<>>]

VOp(op, args) == [tag |-> "Op", lit |-> "", op |-> op, args |-> args]

\* Value::LeftAlone(NeverEqual): its eq is always false, so a lookup of it
\* in `intern` never hits
VLeftAlone == [tag |-> "LeftAlone", lit |-> "", op |-> "", args |-> <<>>]

\* Literal's Display
LiteralToString(lit) == ToString(lit.n)

\* ValueTable::default(); value indices are 0-based as in the source, so
\* value k is values[k + 1]
DefaultTable ==
    [values |-> <<>>, intern |-> EmptyMap, counter |-> 0,
     variables_to_values |-> EmptyMap, constant_folder |-> EmptyMap]

\* ValueTable::add_value_and_get_existing_variable; constant is an Option
AddValueAndGetExistingVariable(t, value, constant, current_variable, is_overwritten) ==
    IF value.tag # "LeftAlone" /\ value \in DOMAIN t.intern THEN
        LET existing_value_index == t.intern[value]
        IN  [table |-> [t EXCEPT !.variables_to_values =
                            MapPut(@, current_variable, existing_value_index)],
             name |-> current_variable,
             existing |-> Some(t.values[existing_value_index + 1][2])]
    ELSE
        LET counter == IF is_overwritten THEN t.counter + 1 ELSE t.counter
            new_name == IF is_overwritten
                        THEN current_variable \o "__t" \o ToString(counter)
                        ELSE current_variable
            new_value_index == Len(t.values)
        IN  [table |->
                [values |-> Append(t.values, <<value, new_name>>),
                 intern |-> MapPut(t.intern, value, new_value_index),
                 counter |-> counter,
                 variables_to_values |->
                     MapPut(t.variables_to_values, current_variable,
                            new_value_index),
                 constant_folder |->
                     IF constant # None
                     THEN MapPut(t.constant_folder, new_value_index,
                                 constant[1])
                     ELSE t.constant_folder],
             name |-> new_name,
             existing |-> None]

\* ValueTable::get_value
GetValue(t, variable) ==
    IF variable \in DOMAIN t.variables_to_values
    THEN Some(t.variables_to_values[variable])
    ELSE None

\* ValueTable::get_canonical_name
GetCanonicalName(t, value) ==
    IF value.tag = "Value" THEN t.values[value.index + 1][2] ELSE value.name

\* ValueTable::get_constant
GetConstant(t, value) ==
    IF value.tag = "Value" /\ value.index \in DOMAIN t.constant_folder
    THEN Some(t.constant_folder[value.index])
    ELSE None

\* table.get_value(arg).map(OpArg::Value).unwrap_or(OpArg::Unknown(arg))
NewArgs(t, args) ==
    [k \in DOMAIN args |->
        IF GetValue(t, args[k]) # None
        THEN ArgValue(GetValue(t, args[k])[1])
        ELSE ArgUnknown(args[k])]

CanonicalNames(t, new_args) ==
    [k \in DOMAIN new_args |-> GetCanonicalName(t, new_args[k])]

\* the ops whose arguments lvn sorts
CommutativeOps ==
    {"add", "fadd", "mul", "fmul", "eq", "feq", "and", "or", "ceq"}

RECURSIVE SumInts(_)
SumInts(lits) == IF lits = <<>> THEN 0 ELSE Head(lits).n + SumInts(Tail(lits))

\* the constant_folded computation of lvn: Some(Constant) or None
ConstantFold(t, op, new_args, destination, op_type) ==
    LET constants == [k \in DOMAIN new_args |-> GetConstant(t, new_args[k])]
    IN  IF /\ \A k \in DOMAIN constants : constants[k] # None
           /\ op = "add"
           /\ \A k \in DOMAIN constants : constants[k][1].kind = "Int"
        THEN Some(Constant(destination, op_type,
                           IntLit(SumInts([k \in DOMAIN constants |->
                                              constants[k][1]]))))
        ELSE None

\* the body of the main loop of lvn on instruction i (0-based): the new
\* table and the instruction that replaces it
LvnOne(t, instruction, idx, last) ==
    LET dest == instruction.dest
        is_overwritten == last[dest] > idx
        new_args == NewArgs(t, instruction.args)
    IN
    IF instruction.kind = "value" /\ instruction.op = "get" THEN
        [table |-> t,
         instruction |-> Value(dest, instruction.type, "get", <<>>)]
    ELSE IF instruction.kind = "const" THEN
        LET r == AddValueAndGetExistingVariable(t,
                    IF instruction.type = "float"
                    THEN VFloat(LiteralToString(instruction.value))
                    ELSE VOtherConst(LiteralToString(instruction.value)),
                    Some(instruction.value), dest, is_overwritten)
        IN  [table |-> r.table,
             instruction |->
                 IF r.existing # None
                 THEN Value(r.name, instruction.type, "id", r.existing)
                 ELSE Constant(r.name, instruction.type, instruction.value)]
    ELSE IF instruction.kind = "value" /\ instruction.op \in {"alloc", "call"} THEN
        LET r == AddValueAndGetExistingVariable(t, VLeftAlone, None, dest,
                                                is_overwritten)
        IN  [table |-> r.table,
             instruction |-> Value(r.name, instruction.type, instruction.op,
                                   CanonicalNames(r.table, new_args))]
    ELSE IF instruction.kind = "value" THEN
        LET sorted == IF instruction.op \in CommutativeOps
                      THEN SortArgs(new_args) ELSE new_args
            r == AddValueAndGetExistingVariable(t, VOp(instruction.op, sorted),
                                                None, dest, is_overwritten)
            folded == ConstantFold(r.table, instruction.op, sorted, r.name,
                                   instruction.type)
        IN  [table |-> r.table,
             instruction |->
                 IF r.existing # None
                 THEN Value(r.name, instruction.type, "id", r.existing)
                 ELSE IF folded # None THEN folded[1]
                 ELSE Value(r.name, instruction.type, instruction.op,
                            CanonicalNames(r.table, sorted))]
    ELSE
        [table |-> t,
         instruction |-> Effect(instruction.op,
                                CanonicalNames(t, new_args),
                                instruction.labels)]

\* the pre-scan of lvn: destination -> 0-based index of its last assignment
RECURSIVE LastAssignment(_, _, _)
LastAssignment(instructions, k, acc) ==
    IF k > Len(instructions) THEN acc
    ELSE LastAssignment(instructions, k + 1,
            IF instructions[k].kind \in {"const", "value"}
            THEN MapPut(acc, instructions[k].dest, k - 1)
            ELSE acc)

\* the instructions input blocks are made of
LvnItems ==
    {Constant(d, "int", IntLit(n)) : d \in Vars, n \in {1, 2}}
      \cup {Constant(d, "float", FloatLit(1)) : d \in Vars}
      \cup {Value(d, "int", o, <<a, b>>) :
               d \in Vars, o \in {"add", "sub"}, a \in Vars, b \in Vars}
      \cup {Value(d, "int", "id", <<a>>) : d \in Vars, a \in Vars}
      \cup {Value(d, "int", "get", <<>>) : d \in Vars}
      \cup {Effect("print", <<a>>, <<>>) : a \in Vars}

InitLvn ==
    /\ pc = "lvn"
    /\ lvn_input \in SeqsUpTo(LvnItems, MaxBlock)
    /\ lvn_block = lvn_input
    /\ lvn_table = DefaultTable
    /\ lvn_last = EmptyMap
    /\ lvn_i = 0
    /\ CfgIdle
    /\ DfIdle
    /\ DomIdle
    /\ SsaIdle
    /\ TdceIdle
    /\ LoopIdle
    /\ LicmIdle

\* lvn up to its main loop: the table and the last_assignment pre-scan
LvnPrescan ==
    /\ pc = "lvn"
    /\ lvn_last' = LastAssignment(lvn_block, 1, EmptyMap)
    /\ pc' = "lvn_loop"
    /\ UNCHANGED <<lvn_block, lvn_input, lvn_table, lvn_i, notLvn>>

\* one iteration of the main loop of lvn
LvnStep ==
    /\ pc = "lvn_loop"
    /\ lvn_i < Len(lvn_block)
    /\ LET r == LvnOne(lvn_table, lvn_block[lvn_i + 1], lvn_i, lvn_last)
       IN  /\ lvn_table' = r.table
           /\ lvn_block' = [lvn_block EXCEPT ![lvn_i + 1] = r.instruction]
    /\ lvn_i' = lvn_i + 1
    /\ UNCHANGED <<pc, lvn_input, lvn_last, notLvn>>

\* the main loop is over: lvn returns
LvnReturn ==
    /\ pc = "lvn_loop"
    /\ lvn_i = Len(lvn_block)
    /\ pc' = "lvn_done"
    /\ UNCHANGED <<lvnVars, notLvn>>

NextLvn == LvnPrescan \/ LvnStep \/ LvnReturn

SpecLvn == InitLvn /\ [][NextLvn]_vars

(***************************************************************************)
(* The meaning of a block, for the claims about lvn: a store of variables, *)
(* the shadow store `get` reads from, and the trace of printed values.     *)
(***************************************************************************)
Undefined == 0 - 1

InitialStores == [Vars -> {10, 20}]

\* what `get d` yields: the value a predecessor's `set d _` left behind
ShadowOf(d) == 30 + NameRank(d)

Lookup(env, v) == IF v \in DOMAIN env THEN env[v] ELSE Undefined

Exec(st, ins) ==
    LET arg(k) == Lookup(st.env, ins.args[k])
    IN
    IF ins.kind = "const" THEN
        [st EXCEPT !.env = MapPut(@, ins.dest, ins.value.n)]
    ELSE IF ins.kind = "value" THEN
        [st EXCEPT !.env = MapPut(@, ins.dest,
            IF ins.op = "add" THEN arg(1) + arg(2)
            ELSE IF ins.op = "sub" THEN arg(1) - arg(2)
            ELSE IF ins.op = "id" THEN arg(1)
            ELSE IF ins.op = "get" THEN ShadowOf(ins.dest)
            ELSE Undefined)]
    ELSE IF ins.op = "print" THEN
        [st EXCEPT !.out = Append(@, [k \in DOMAIN ins.args |-> arg(k)])]
    ELSE st

RECURSIVE Run(_, _)
Run(instructions, st) ==
    IF instructions = <<>> THEN st
    ELSE Run(Tail(instructions), Exec(st, Head(instructions)))

RunFrom(instructions, env) == Run(instructions, [env |-> env, out |-> <<>>])

\* C4 (as claimed): for every block and every initial store, the block
\* before and after lvn prints the same values and leaves the same final
\* value in every variable of the input block
C4_LvnPreservesBlockMeaning ==
    pc = "lvn_done" =>
        \A env \in InitialStores :
            LET before == RunFrom(lvn_input, env)
                after == RunFrom(lvn_block, env)
            IN  /\ before.out = after.out
                /\ \A v \in Vars : Lookup(before.env, v) = Lookup(after.env, v)

(***************************************************************************)
(* The dataflow driver (lesson4/dataflow/src/lib.rs) and the reaching      *)
(* definitions instance (lesson4/dataflow/src/reaching_definitions.rs).    *)
(***************************************************************************)
\* longest input instruction sequence of the dataflow runs
MaxDfCode == 4

\* InstructionExt::kill, an Option
Kill(instruction) ==
    IF instruction.kind \in {"const", "value"} THEN Some(instruction.dest)
    ELSE None

\* InstructionExt::gen_set
GenSet(instruction) ==
    IF instruction.kind \in {"value", "effect"} THEN instruction.args ELSE <<>>

\* enum InstructionValue
IVArgument ==
    [tag |-> "Argument", lit |-> "", float |-> FALSE, op |-> "",
     args |-> <<>>, labels |-> <<>>]

IVConstant(lit, is_float) ==
    [tag |-> "Constant", lit |-> lit, float |-> is_float, op |-> "",
     args |-> <<>>, labels |-> <<>>]

IVOp(op, args, labels) ==
    [tag |-> "Op", lit |-> "", float |-> FALSE, op |-> op, args |-> args,
     labels |-> labels]

\* InstructionExt::value, an Option
ValueOf(instruction) ==
    IF instruction.kind = "const"
    THEN Some(IVConstant(LiteralToString(instruction.value),
                         instruction.value.kind = "Float"))
    ELSE IF instruction.kind = "value"
    THEN Some(IVOp(instruction.op, instruction.args, instruction.labels))
    ELSE None

\* struct Definition(name, value, block)
Definition(name, value, block_idx) ==
    [name |-> name, value |-> value, block |-> block_idx]

\* construct_postorder: the DFS helper and its loop over the successors
RECURSIVE PostorderHelper(_, _, _)
RECURSIVE PostorderVisit(_, _, _, _)
PostorderHelper(g, current, st) ==
    LET entered == [st EXCEPT !.visited = @ \cup {current}]
        left == PostorderVisit(g, Successors(g, current), 1, entered)
    IN  [left EXCEPT !.traversal = Append(@, current)]

PostorderVisit(g, successors, k, st) ==
    IF k > Len(successors) THEN st
    ELSE PostorderVisit(g, successors, k + 1,
            IF successors[k] \in st.visited THEN st
            ELSE PostorderHelper(g, successors[k], st))

\* construct_postorder
ConstructPostorder(g) ==
    PostorderHelper(g, g.entry, [visited |-> {}, traversal |-> <<>>]).traversal

Reverse(s) == [k \in DOMAIN s |-> s[Len(s) + 1 - k]]

\* the merge closure of reaching_definitions
Merge(lhs, rhs) == lhs \cup rhs

\* reaching_definitions::transfer, from instruction k of the block on
RECURSIVE TransferFrom(_, _, _, _)
TransferFrom(instructions, block_idx, k, inputs) ==
    IF k > Len(instructions) THEN inputs
    ELSE
      LET kill == Kill(instructions[k])
      IN  TransferFrom(instructions, block_idx, k + 1,
            IF kill # None
            THEN {input \in inputs : input.name # kill[1]}
                   \cup {Definition(kill[1], ValueOf(instructions[k])[1],
                                    block_idx)}
            ELSE inputs)

\* a transfer that inserts the definitions of the block but retains the
\* killed ones
RECURSIVE TransferNoRetainFrom(_, _, _, _)
TransferNoRetainFrom(instructions, block_idx, k, inputs) ==
    IF k > Len(instructions) THEN inputs
    ELSE
      LET kill == Kill(instructions[k])
      IN  TransferNoRetainFrom(instructions, block_idx, k + 1,
            IF kill # None
            THEN inputs \cup {Definition(kill[1], ValueOf(instructions[k])[1],
                                         block_idx)}
            ELSE inputs)

TransferNoRetain(g, block_idx, inputs) ==
    TransferNoRetainFrom(g.vertices[block_idx].instructions, block_idx, 1,
                         inputs)

\* reaching_definitions::transfer
Transfer(g, block_idx, inputs) ==
    TransferFrom(g.vertices[block_idx].instructions, block_idx, 1, inputs)

\* the entry_inputs reaching_definitions hands to solve_dataflow
EntryInputs(g, args) ==
    {Definition(args[k], IVArgument, g.entry) : k \in DOMAIN args}

\* the merge loop of solve_dataflow over the neighbours of a block
RECURSIVE MergeAll(_, _, _, _)
MergeAll(solution, neighbours, k, acc) ==
    IF k > Len(neighbours) THEN acc
    ELSE MergeAll(solution, neighbours, k + 1,
                  Merge(acc, solution[neighbours[k]]))

\* definition_is_reachable: the BFS over the predecessors
RECURSIVE ReachableBfs(_, _, _, _)
ReachableBfs(g, definition, bfs, visited) ==
    IF bfs = <<>> THEN FALSE
    ELSE
      LET current == Head(bfs)
          instructions == g.vertices[current].instructions
          fresh(p) == p \notin visited
      IN  IF \E k \in DOMAIN instructions :
                /\ Kill(instructions[k]) # None
                /\ ValueOf(instructions[k]) # None
                /\ definition = Definition(Kill(instructions[k])[1],
                                           ValueOf(instructions[k])[1],
                                           current)
          THEN TRUE
          ELSE ReachableBfs(g, definition,
                  Tail(bfs) \o SelectSeq(Predecessors(g, current), fresh),
                  visited \cup {current})

\* definition_is_reachable
DefinitionIsReachable(g, block_idx, definition) ==
    IF definition.value.tag = "Argument" THEN TRUE
    ELSE ReachableBfs(g, definition, <<block_idx>>, {})

\* the instructions the input functions of the dataflow runs are made of
DfItems ==
    {CodeLabel(l) : l \in LabelNames}
      \cup {Effect("jmp", <<>>, <<l>>) : l \in LabelNames}
      \cup {Effect("br", <<"c">>, <<"a", "b">>), Effect("ret", <<>>, <<>>)}
      \cup {Constant("x", "int", IntLit(n)) : n \in {1, 2}}
      \cup {Value("y", "int", "id", <<"x">>)}

\* the tool has built the CFG of a function and calls reaching_definitions
InitRd ==
    /\ pc = "df_start"
    /\ function \in SeqsUpTo(DfItems, MaxDfCode)
    /\ prune \in BOOLEAN
    /\ BuildCfgOf(function, prune).ok
    /\ cfg = BuildCfgOf(function, prune).cfg
    /\ arguments \in {<<"x">>, <<"x", "y">>}
    /\ df_blocks = <<>>
    /\ df_solution = <<>>
    /\ df_initial_in = {}
    /\ LvnIdle
    /\ DomIdle
    /\ SsaIdle
    /\ TdceIdle
    /\ LoopIdle
    /\ LicmIdle

\* a worklist whose front is read without being popped
NextBlocksNotPopped(blocks, changed, extension) ==
    IF changed THEN blocks \o extension ELSE blocks

\* the worklist after an iteration of solve_dataflow: the front is popped
\* and, when the solution of the block changed, the extension is appended
NextBlocks(blocks, changed, extension) ==
    IF changed THEN Tail(blocks) \o extension ELSE Tail(blocks)

\* solve_dataflow (Forward) up to its loop
SolveStart ==
    /\ pc = "df_start"
    /\ df_blocks' = Reverse(ConstructPostorder(cfg))
    /\ df_solution' = [block_idx \in DOMAIN cfg.vertices |-> {}]
    /\ df_initial_in' = EntryInputs(cfg, arguments)
    /\ pc' = "df_loop"
    /\ UNCHANGED <<arguments, notDf>>

\* one iteration of the worklist loop of solve_dataflow (Forward)
SolveStep ==
    /\ pc = "df_loop"
    /\ df_blocks # <<>>
    /\ LET current == Head(df_blocks)
           merged == MergeAll(df_solution, Predecessors(cfg, current), 1,
                              df_initial_in)
           previous_out == df_solution[current]
           new_out == Transfer(cfg, current, merged)
       IN  /\ df_solution' = IF new_out # previous_out
                             THEN [df_solution EXCEPT ![current] = new_out]
                             ELSE df_solution
           /\ df_blocks' = NextBlocks(df_blocks, new_out # previous_out,
                                      Successors(cfg, current))
    /\ df_initial_in' = {}
    /\ UNCHANGED <<pc, arguments, notDf>>

\* the worklist is empty: solve_dataflow returns the solution
SolveReturn ==
    /\ pc = "df_loop"
    /\ df_blocks = <<>>
    /\ pc' = "df_done"
    /\ UNCHANGED <<dfVars, notDf>>

\* the loop of reaching_definitions over the solution: it panics when some
\* definition of some block is not reachable
RdVerify ==
    /\ pc = "df_done"
    /\ pc' = IF \A block_idx \in DOMAIN df_solution :
                  \A definition \in df_solution[block_idx] :
                      DefinitionIsReachable(cfg, block_idx, definition)
             THEN "rd_ok" ELSE "rd_panic"
    /\ UNCHANGED <<dfVars, notDf>>

NextRd == SolveStart \/ SolveStep \/ SolveReturn \/ RdVerify

SpecRd == InitRd /\ [][NextRd]_vars

\* the last instruction of the block that defines name, an Option
LastDefinitionOf(g, block_idx, name) ==
    LET instructions == g.vertices[block_idx].instructions
        defs == {k \in DOMAIN instructions : Kill(instructions[k]) = Some(name)}
    IN  IF defs = {} THEN None
        ELSE Some(instructions[CHOOSE k \in defs : \A j \in defs : j <= k])

\* the blocks from which a path of the reverse CFG leads to the block of
\* the definition, no block of the path redefining the name after it
RECURSIVE CleanFrom(_, _, _)
CleanFrom(g, definition, found) ==
    LET more == {c \in DOMAIN g.vertices :
                    /\ LastDefinitionOf(g, c, definition.name) = None
                    /\ \E p \in SeqToSet(Predecessors(g, c)) : p \in found}
    IN  IF more \subseteq found THEN found
        ELSE CleanFrom(g, definition, found \cup more)

HasCleanPath(g, block_idx, definition) ==
    LET last == LastDefinitionOf(g, definition.block, definition.name)
        start == IF /\ definition.block \in DOMAIN g.vertices
                    /\ last # None
                    /\ ValueOf(last[1]) = Some(definition.value)
                 THEN {definition.block} ELSE {}
    IN  block_idx \in CleanFrom(g, definition, start)

SolutionReturned == pc \in {"df_done", "rd_ok", "rd_panic"}

\* C5: every definition of the reaching-definitions solution of a block b
\* that is not an argument pseudo-definition has a path of the reverse CFG
\* from b to its defining block on which no block redefines the name after
\* that definition, and the reachability assertion of reaching_definitions
\* does not fire.
C5_DefinitionsHaveCleanPath ==
    /\ SolutionReturned =>
          \A block_idx \in DOMAIN df_solution :
              \A definition \in df_solution[block_idx] :
                  definition.value.tag # "Argument" =>
                      HasCleanPath(cfg, block_idx, definition)
    /\ pc # "rd_panic"

\* the assertion has run over a solution in which a definition made in one
\* block reaches the end of another one
C5_Witness ==
    /\ pc = "rd_ok"
    /\ \E block_idx \in DOMAIN df_solution :
          \E definition \in df_solution[block_idx] :
              /\ definition.value.tag # "Argument"
              /\ definition.block # block_idx

\* the inputs of a block in the dataflow equations of reaching definitions
EquationInputs(block_idx) ==
    (IF block_idx = cfg.entry THEN EntryInputs(cfg, arguments) ELSE {})
      \cup UNION {df_solution[p] :
                    p \in SeqToSet(Predecessors(cfg, block_idx))}

\* C6: the returned solution satisfies the dataflow equations with the
\* argument pseudo-definitions entering at the entry block: for every block
\* b reachable from the entry, solution[b] is the transfer of b applied to
\* the pseudo-definitions (when b is the entry) united with the solutions
\* of the predecessors of b.
C6_SolutionIsFixpointWithArguments ==
    SolutionReturned =>
        \A block_idx \in Reachable(cfg) :
            df_solution[block_idx] =
                Transfer(cfg, block_idx, EquationInputs(block_idx))

(***************************************************************************)
(* Dominators and dominance frontiers (lesson5/dominators/src/lib.rs).     *)
(***************************************************************************)
\* longest input instruction sequence of the dominator runs
MaxDomCode == 5

DomLabelNames == {"a", "b", "j"}

\* the intersection loop of compute_dominators over the predecessors of a
\* block: the first predecessor's set is cloned, the others intersected
RECURSIVE IntersectPreds(_, _, _, _)
IntersectPreds(doms, preds, k, new) ==
    IF k > Len(preds) THEN new
    ELSE IntersectPreds(doms, preds, k + 1,
                        IF k = 1 THEN doms[preds[k]]
                        ELSE new \cap doms[preds[k]])

\* the same loop uniting the sets of the predecessors
RECURSIVE UnitePreds(_, _, _, _)
UnitePreds(doms, preds, k, new) ==
    IF k > Len(preds) THEN new
    ELSE UnitePreds(doms, preds, k + 1, new \cup doms[preds[k]])

NewDominatorsUnited(g, doms, block_idx) ==
    UnitePreds(doms, Predecessors(g, block_idx), 1, {}) \cup {block_idx}

\* the set compute_dominators assigns to a block in one iteration
NewDominators(g, doms, block_idx) ==
    IntersectPreds(doms, Predecessors(g, block_idx), 1, {}) \cup {block_idx}

\* the rev map of compute_dominance_frontiers: the blocks d strictly
\* dominates, for every d that occurs in some set of doms
StrictlyDominated(doms) ==
    [d \in UNION {doms[idx] : idx \in DOMAIN doms} |->
        {idx \in DOMAIN doms : d \in doms[idx] /\ idx # d}]

\* a frontier that keeps the strictly dominated successors
FrontierOfKeepingDominated(g, idx, dominated) ==
    UNION {SeqToSet(Successors(g, dominated_idx)) :
             dominated_idx \in dominated \cup {idx}}

\* the body of the second loop of compute_dominance_frontiers
FrontierOf(g, idx, dominated) ==
    UNION {SeqToSet(Successors(g, dominated_idx)) :
             dominated_idx \in dominated \cup {idx}} \ dominated

\* compute_dominance_frontiers
ComputeDominanceFrontiers(g, doms) ==
    LET rev == StrictlyDominated(doms)
    IN  [idx \in DOMAIN rev |-> FrontierOf(g, idx, rev[idx])]

\* the instructions the input functions of the dominator runs are made of
DomItems ==
    {CodeLabel(l) : l \in DomLabelNames}
      \cup {Effect("jmp", <<>>, <<l>>) : l \in {"a", "j"}}
      \cup {Effect("br", <<"c">>, <<"a", "b">>)}

\* the tool has built the CFG of a function and calls compute_dominators
InitDom ==
    /\ pc = "dom_start"
    /\ function \in SeqsUpTo(DomItems, MaxDomCode)
    /\ prune \in BOOLEAN
    /\ BuildCfgOf(function, prune).ok
    /\ cfg = BuildCfgOf(function, prune).cfg
    /\ DomIdle
    /\ SsaIdle
    /\ TdceIdle
    /\ LoopIdle
    /\ LicmIdle
    /\ LvnIdle
    /\ DfIdle

\* compute_dominators up to its while loop
DomStart ==
    /\ pc = "dom_start"
    /\ reverse_postorder' =
          SelectSeq(Reverse(ConstructPostorder(cfg)),
                    LAMBDA idx : idx # cfg.entry)
    /\ dominators' = [block_idx \in DOMAIN cfg.vertices |->
                         IF block_idx = cfg.entry THEN {cfg.entry}
                         ELSE DOMAIN cfg.vertices]
    /\ needs_update' = TRUE
    /\ dom_i' = 0
    /\ pc' = "dom_while"
    /\ UNCHANGED <<frontiers, notDom>>

\* needs_update is set: a new pass over reverse_postorder begins
DomPassBegin ==
    /\ pc = "dom_while"
    /\ needs_update
    /\ needs_update' = FALSE
    /\ dom_i' = 1
    /\ pc' = IF reverse_postorder = <<>> THEN "dom_while" ELSE "dom_for"
    /\ UNCHANGED <<reverse_postorder, dominators, frontiers, notDom>>

\* one iteration of the for loop of compute_dominators
DomBlock ==
    /\ pc = "dom_for"
    /\ LET block_idx == reverse_postorder[dom_i]
           previous == dominators[block_idx]
           new == NewDominators(cfg, dominators, block_idx)
       IN  /\ needs_update' = (needs_update \/ new # previous)
           /\ dominators' = [dominators EXCEPT ![block_idx] = new]
    /\ dom_i' = dom_i + 1
    /\ pc' = IF dom_i = Len(reverse_postorder) THEN "dom_while" ELSE "dom_for"
    /\ UNCHANGED <<reverse_postorder, frontiers, notDom>>

\* no set changed in the last pass: compute_dominators returns
DomReturn ==
    /\ pc = "dom_while"
    /\ ~needs_update
    /\ pc' = "dom_done"
    /\ UNCHANGED <<domVars, notDom>>

\* compute_dominance_frontiers on the dominators just computed
DomFrontiers ==
    /\ pc = "dom_done"
    /\ frontiers' = ComputeDominanceFrontiers(cfg, dominators)
    /\ pc' = "frontiers_done"
    /\ UNCHANGED <<reverse_postorder, dominators, needs_update, dom_i, notDom>>

NextDom ==
    DomStart \/ DomPassBegin \/ DomBlock \/ DomReturn \/ DomFrontiers

SpecDom == InitDom /\ [][NextDom]_vars

\* the blocks some path from the entry reaches without passing through d
ReachableAvoiding(g, d) ==
    IF d = g.entry THEN {}
    ELSE ReachableFrom([g EXCEPT !.vertices = Restrict(@, DOMAIN @ \ {d})],
                       {g.entry})

\* d dom b: every path from the entry to b passes through d
Dominates(g, d, b) == b \notin ReachableAvoiding(g, d)

\* C7: for every block b reachable from the entry, compute_dominators
\* returns dom[b] = the set of the blocks d that every path from the entry
\* to b passes through (so dom[entry] = {entry} and b is in dom[b]), also
\* when b has predecessors that are not reachable from the entry.
C7_DominatorsAreExact ==
    pc \in {"dom_done", "frontiers_done"} =>
        \A b \in Reachable(cfg) :
            /\ dominators[b] =
                  {d \in DOMAIN cfg.vertices : Dominates(cfg, d, b)}
            /\ b \in dominators[b]
            /\ b = cfg.entry => dominators[b] = {cfg.entry}

\* compute_dominators has returned for a CFG in which a reachable block
\* other than the entry has an unreachable predecessor and a dominator
\* besides the entry and itself
C7_Witness ==
    /\ pc = "dom_done"
    /\ \E b \in Reachable(cfg) \ {cfg.entry} :
          /\ \E p \in SeqToSet(Predecessors(cfg, b)) : p \notin Reachable(cfg)
          /\ \E d \in dominators[b] : d # b /\ d # cfg.entry

\* C8: compute_dominance_frontiers returns, for every block d, the set of
\* the blocks s that succeed some block p with d in dom[p] and that d does
\* not strictly dominate (d is not in dom[s], or s = d).
C8_FrontierFormula ==
    pc = "frontiers_done" =>
        /\ DOMAIN frontiers = DOMAIN cfg.vertices
        /\ \A d \in DOMAIN cfg.vertices :
              frontiers[d] =
                {s \in DOMAIN cfg.vertices :
                    /\ \E p \in DOMAIN cfg.vertices :
                          /\ d \in dominators[p]
                          /\ Contains(Successors(cfg, p), s)
                    /\ (d \notin dominators[s] \/ s = d)}

\* the frontiers of a diamond entry -> {L, R} -> join have been computed:
\* df(L) = df(R) = {join}
C8_Witness ==
    /\ pc = "frontiers_done"
    /\ \E l, r, join \in DOMAIN cfg.vertices :
          /\ Cardinality({cfg.entry, l, r, join}) = 4
          /\ SeqToSet(Successors(cfg, cfg.entry)) = {l, r}
          /\ SeqToSet(Successors(cfg, l)) = {join}
          /\ SeqToSet(Successors(cfg, r)) = {join}
          /\ SeqToSet(Successors(cfg, join)) = {}
          /\ frontiers[l] = {join}
          /\ frontiers[r] = {join}

(***************************************************************************)
(* SSA construction and destruction (lesson6/ssa/src/lib.rs, main.rs).     *)
(***************************************************************************)
\* longest input instruction sequence of the SSA runs
MaxSsaCode == 5

IsDefinition(instruction) == instruction.kind \in {"const", "value"}

IsGet(instruction) == instruction.kind = "value" /\ instruction.op = "get"

IsSet(instruction) == instruction.kind = "effect" /\ instruction.op = "set"

\* the (definition, ty, block_idx) triples compute_definition_sites folds,
\* in the order of its iteration over the blocks and their instructions
RECURSIVE DefinitionsFrom(_, _, _)
DefinitionsFrom(g, keys, k) ==
    IF k > Len(keys) THEN <<>>
    ELSE
      LET defining == SelectSeq(g.vertices[keys[k]].instructions, IsDefinition)
      IN  [j \in DOMAIN defining |->
              [definition |-> defining[j].dest, ty |-> defining[j].type,
               block_idx |-> keys[k]]]
            \o DefinitionsFrom(g, keys, k + 1)

\* compute_definition_sites: per variable the type seen first and the
\* blocks of its definitions
ComputeDefinitionSites(g) ==
    LET all == DefinitionsFrom(g, SortedKeys(DOMAIN g.vertices), 1)
        of(variable) == SelectSeq(all, LAMBDA d : d.definition = variable)
    IN  [variable \in {all[k].definition : k \in DOMAIN all} |->
            [ty |-> of(variable)[1].ty,
             blocks |-> [k \in DOMAIN of(variable) |->
                            of(variable)[k].block_idx]]]

\* determine_phi_insertion_points: the frontiers of the definition blocks
DeterminePhiInsertionPoints(sites, dominance_frontiers) ==
    LET points(variable) ==
            UNION {dominance_frontiers[block_idx] :
                     block_idx \in SeqToSet(sites[variable].blocks)}
    IN  [variable \in {v \in DOMAIN sites : points(v) # {}} |->
            [ty |-> sites[variable].ty, blocks |-> points(variable)]]

\* the names of a set in the order of the BTreeMap
RECURSIVE SortedNames(_)
SortedNames(S) ==
    IF S = {} THEN <<>>
    ELSE LET least == CHOOSE x \in S : \A y \in S : NameRank(x) <= NameRank(y)
         IN  <<least>> \o SortedNames(S \ {least})

\* insert_phis
InsertPhis(g, points) ==
    LET phis(block_idx) ==
            LET variables == SortedNames({v \in DOMAIN points :
                                            block_idx \in points[v].blocks})
            IN  [k \in DOMAIN variables |->
                    Value(variables[k], points[variables[k]].ty, "get", <<>>)]
    IN  [g EXCEPT !.vertices =
            [block_idx \in DOMAIN @ |->
                [@[block_idx] EXCEPT
                    !.instructions = phis(block_idx) \o @]]]

\* rename_and_insert_upsilons: its body binds two locals and returns
RenameAndInsertUpsilons(g, block_idx) == g

\* set_operation_types with every get taken for an int
SetOperationTypesAllInt(g) ==
    LET gets(b) == SelectSeq(g.vertices[b].instructions, IsGet)
    IN  [name \in UNION {{gets(b)[k].dest : k \in DOMAIN gets(b)} :
                            b \in DOMAIN g.vertices} |-> "int"]

\* from_ssa, first loop: the type of every get; a later get of the same
\* destination overwrites the entry of an earlier one
SetOperationTypes(g) ==
    LET keys == SortedKeys(DOMAIN g.vertices)
        gets(b) == SelectSeq(g.vertices[b].instructions, IsGet)
        typed == UNION {{<<k, j>> : j \in DOMAIN gets(keys[k])} :
                          k \in DOMAIN keys}
        later(p, q) == p[1] > q[1] \/ (p[1] = q[1] /\ p[2] >= q[2])
        named(name) == {p \in typed : gets(keys[p[1]])[p[2]].dest = name}
        last(name) == CHOOSE p \in named(name) :
                         \A q \in named(name) : later(p, q)
    IN  [name \in {gets(keys[p[1]])[p[2]].dest : p \in typed} |->
            gets(keys[last(name)[1]])[last(name)[2]].type]

\* from_ssa, the inner loop over the instructions of a block once its gets
\* are removed: [ok, instructions]
RECURSIVE ReplaceSets(_, _, _)
ReplaceSets(types, instructions, k) ==
    IF k > Len(instructions) THEN [ok |-> TRUE, instructions |-> instructions]
    ELSE IF IsSet(instructions[k])
    THEN IF instructions[k].args[1] \in DOMAIN types
         THEN ReplaceSets(types,
                [instructions EXCEPT ![k] =
                    Value(instructions[k].args[1],
                          types[instructions[k].args[1]], "id",
                          <<instructions[k].args[2]>>)],
                k + 1)
         ELSE [ok |-> FALSE, instructions |-> instructions]
    ELSE ReplaceSets(types, instructions, k + 1)

\* from_ssa, second loop over the blocks: [ok, cfg]
RECURSIVE FromSsaLoop(_, _, _, _)
FromSsaLoop(g, types, keys, k) ==
    IF k > Len(keys) THEN [ok |-> TRUE, cfg |-> g]
    ELSE
      LET retained == SelectSeq(g.vertices[keys[k]].instructions,
                                LAMBDA i : ~IsGet(i))
          replaced == ReplaceSets(types, retained, 1)
          after == [g EXCEPT !.vertices[keys[k]].instructions =
                        replaced.instructions]
      IN  IF replaced.ok THEN FromSsaLoop(after, types, keys, k + 1)
          ELSE [ok |-> FALSE, cfg |-> after]

\* from_ssa
FromSsaOf(g) ==
    FromSsaLoop(g, SetOperationTypes(g), SortedKeys(DOMAIN g.vertices), 1)

\* the instructions the input functions of the into-SSA runs are made of
IntoSsaItems ==
    {CodeLabel(l) : l \in LabelNames}
      \cup {Jump(l) : l \in LabelNames}
      \cup {Branch("c", "a", "b")}
      \cup {Constant("x", "int", IntLit(1)), Value("y", "int", "id", <<"x">>)}

\* main, --into-ssa: the CFG is built with pruning, then the dominators are
\* computed
InitIntoSsa ==
    /\ pc = "dom_start"
    /\ function \in SeqsUpTo(IntoSsaItems, MaxSsaCode)
    /\ prune = TRUE
    /\ BuildCfgOf(function, prune).ok
    /\ cfg = BuildCfgOf(function, prune).cfg
    /\ DomIdle
    /\ LvnIdle
    /\ DfIdle
    /\ SsaIdle
    /\ TdceIdle
    /\ LoopIdle
    /\ LicmIdle

\* main: let definition_sites = ssa::compute_definition_sites(&cfg)
DoComputeDefinitionSites ==
    /\ pc = "frontiers_done"
    /\ definition_sites' = ComputeDefinitionSites(cfg)
    /\ pc' = "sites_done"
    /\ UNCHANGED <<cfg, phi_insertion_points, from_ssa_result, notSsa>>

\* main: let phi_insertion_points = ssa::determine_phi_insertion_points(..)
DoDeterminePhiInsertionPoints ==
    /\ pc = "sites_done"
    /\ phi_insertion_points' =
          DeterminePhiInsertionPoints(definition_sites, frontiers)
    /\ pc' = "points_done"
    /\ UNCHANGED <<cfg, definition_sites, from_ssa_result, notSsa>>

\* main: ssa::insert_phis(&mut cfg, phi_insertion_points)
DoInsertPhis ==
    /\ pc = "points_done"
    /\ cfg' = InsertPhis(cfg, phi_insertion_points)
    /\ pc' = "phis_done"
    /\ UNCHANGED <<ssaVars, notSsa>>

\* main: ssa::rename_and_insert_upsilons(&mut cfg, entry, ..)
DoRenameAndInsertUpsilons ==
    /\ pc = "phis_done"
    /\ cfg' = RenameAndInsertUpsilons(cfg, cfg.entry)
    /\ pc' = "ssa_done"
    /\ UNCHANGED <<ssaVars, notSsa>>

NextIntoSsa ==
    \/ NextDom
    \/ DoComputeDefinitionSites
    \/ DoDeterminePhiInsertionPoints
    \/ DoInsertPhis
    \/ DoRenameAndInsertUpsilons

SpecIntoSsa == InitIntoSsa /\ [][NextIntoSsa]_vars

\* block p holds, in the run of sets that ends right before its exit, a
\* set whose first argument is name
HasSetBeforeExit(block, name) ==
    LET exit_idx == IndexBeforeExit(block)
    IN  \E k \in 1..(exit_idx - 1) :
            /\ IsSet(block.instructions[k])
            /\ block.instructions[k].args[1] = name
            /\ \A j \in k..(exit_idx - 1) : IsSet(block.instructions[j])

\* C9: after insert_phis followed by rename_and_insert_upsilons, for every
\* get of a block s and every predecessor p of s, p holds a set whose
\* first argument is the destination of the get, right before p's
\* terminator (at the end of p if it falls through).
C9_EveryGetHasSetInPredecessors ==
    pc = "ssa_done" =>
        \A s \in DOMAIN cfg.vertices :
            \A k \in DOMAIN cfg.vertices[s].instructions :
                IsGet(cfg.vertices[s].instructions[k]) =>
                    \A p \in SeqToSet(Predecessors(cfg, s)) :
                        HasSetBeforeExit(cfg.vertices[p],
                            cfg.vertices[s].instructions[k].dest)

\* the instructions the input functions of the from-SSA runs are made of
FromSsaItems ==
    {CodeLabel("a"), Jump("a")}
      \cup {Constant("x", "int", IntLit(1)), Value("y", "int", "id", <<"x">>),
            Value("x", "int", "get", <<>>), Value("y", "float", "get", <<>>),
            Effect("set", <<"x", "y">>, <<>>),
            Effect("set", <<"y", "x">>, <<>>)}

\* main, --from-ssa: the CFG is built with pruning
InitFromSsa ==
    /\ pc = "from_ssa"
    /\ function \in SeqsUpTo(FromSsaItems, MaxSsaCode)
    /\ prune = TRUE
    /\ BuildCfgOf(function, prune).ok
    /\ cfg = BuildCfgOf(function, prune).cfg
    /\ DomIdle
    /\ LvnIdle
    /\ DfIdle
    /\ SsaIdle
    /\ TdceIdle
    /\ LoopIdle
    /\ LicmIdle

\* main: ssa::from_ssa(&mut cfg)
FromSsa ==
    /\ pc = "from_ssa"
    /\ LET result == FromSsaOf(cfg)
       IN  /\ cfg' = result.cfg
           /\ from_ssa_result' = IF result.ok THEN "Ok" ELSE "Err"
    /\ pc' = "from_ssa_done"
    /\ UNCHANGED <<definition_sites, phi_insertion_points, notSsa>>

NextFromSsa == FromSsa

SpecFromSsa == InitFromSsa /\ [][NextFromSsa]_vars

\* strict SSA: no destination name is defined by two instructions
IsStrictSsa(g) ==
    LET all == DefinitionsFrom(g, SortedKeys(DOMAIN g.vertices), 1)
    IN  \A j, k \in DOMAIN all :
            all[j].definition = all[k].definition => j = k

\* C10: from_ssa applied to a CFG in which some destination name is
\* defined by more than one instruction returns an error and leaves the
\* CFG as build_cfg made it.
C10_NonSsaInputIsRejectedUnmodified ==
    (pc = "from_ssa_done" /\ ~IsStrictSsa(BuildCfgOf(function, prune).cfg)) =>
        /\ from_ssa_result = "Err"
        /\ cfg = BuildCfgOf(function, prune).cfg

\* C11: when from_ssa returns an error, the CFG is exactly as it was before
\* the call: no get has been removed and no set has been rewritten.
C11_FromSsaErrorLeavesCfgUnchanged ==
    (pc = "from_ssa_done" /\ from_ssa_result = "Err") =>
        cfg = BuildCfgOf(function, prune).cfg

(***************************************************************************)
(* Trivial dead code elimination (lesson3/tdce/src/main.rs).               *)
(***************************************************************************)
\* longest input instruction sequence of the dead code elimination runs
MaxTdceCode == 4

\* the elements of a sequence whose index is not in dropped
RemoveIndices(seq, dropped) ==
    LET kept == SortedKeys(DOMAIN seq \ dropped)
    IN  [k \in DOMAIN kept |-> seq[kept[k]]]

\* trivial_dead_code_elimination, first loop: used_variables
UsedVariables(vertices) ==
    UNION {UNION {SeqToSet(GenSet(vertices[b].instructions[k])) :
                    k \in DOMAIN vertices[b].instructions} :
             b \in DOMAIN vertices}

\* the retain of trivial_dead_code_elimination keeping every Constant
TriviallyDeadValues(used_variables, instructions) ==
    {k \in DOMAIN instructions :
        /\ instructions[k].kind = "value"
        /\ instructions[k].dest \notin used_variables}

\* trivial_dead_code_elimination, the retain: the indices it drops from a
\* block
TriviallyDead(used_variables, instructions) ==
    {k \in DOMAIN instructions :
        /\ IsDefinition(instructions[k])
        /\ instructions[k].dest \notin used_variables}

\* the walk of drop_killed_locals with the uses left out
RECURSIVE DeadWalkIgnoringUses(_, _, _, _)
DeadWalkIgnoringUses(instructions, i, unused_definitions, dead_instructions) ==
    IF i > Len(instructions) THEN dead_instructions
    ELSE
      LET kill == Kill(instructions[i])
      IN  IF kill = None
          THEN DeadWalkIgnoringUses(instructions, i + 1, unused_definitions,
                                    dead_instructions)
          ELSE DeadWalkIgnoringUses(instructions, i + 1,
                 MapPut(unused_definitions, kill[1], i),
                 IF kill[1] \in DOMAIN unused_definitions
                 THEN dead_instructions \cup {unused_definitions[kill[1]]}
                 ELSE dead_instructions)

DropKilledLocalsIgnoringUses(instructions) ==
    DeadWalkIgnoringUses(instructions, 1, EmptyMap, {})

\* drop_killed_locals, the walk over the block from instruction i on
RECURSIVE DeadWalk(_, _, _, _)
DeadWalk(instructions, i, unused_definitions, dead_instructions) ==
    IF i > Len(instructions) THEN dead_instructions
    ELSE
      LET kill == Kill(instructions[i])
          after_uses == Restrict(unused_definitions,
                                 DOMAIN unused_definitions
                                   \ SeqToSet(GenSet(instructions[i])))
      IN  IF kill = None
          THEN DeadWalk(instructions, i + 1, after_uses, dead_instructions)
          ELSE DeadWalk(instructions, i + 1,
                 MapPut(after_uses, kill[1], i),
                 IF kill[1] \in DOMAIN after_uses
                 THEN dead_instructions \cup {after_uses[kill[1]]}
                 ELSE dead_instructions)

\* drop_killed_locals: the indices it removes from a block
DropKilledLocals(instructions) == DeadWalk(instructions, 1, EmptyMap, {})

\* the instructions the input functions of the elimination are made of
TdceItems ==
    {CodeLabel("a"), Jump("a"),
     Constant("x", "int", IntLit(1)),
     Value("y", "int", "id", <<"x">>),
     Value("x", "int", "id", <<"y">>),
     Effect("print", <<"x">>, <<>>)}

\* main of tdce: the CFG is built without pruning
InitTdce ==
    /\ pc = "tdce"
    /\ function \in SeqsUpTo(TdceItems, MaxTdceCode)
    /\ prune = FALSE
    /\ BuildCfgOf(function, prune).ok
    /\ cfg = BuildCfgOf(function, prune).cfg
    /\ tdce_origin = [b \in DOMAIN cfg.vertices |->
                        [k \in DOMAIN cfg.vertices[b].instructions |-> k]]
    /\ DomIdle
    /\ LvnIdle
    /\ DfIdle
    /\ SsaIdle
    /\ LoopIdle
    /\ LicmIdle

\* both the instructions of the blocks and their original indices without
\* the indices dropped[b]
DropFromBlocks(dropped) ==
    /\ cfg' = [cfg EXCEPT !.vertices =
                  [b \in DOMAIN @ |->
                      [@[b] EXCEPT !.instructions =
                          RemoveIndices(@, dropped[b])]]]
    /\ tdce_origin' = [b \in DOMAIN tdce_origin |->
                          RemoveIndices(tdce_origin[b], dropped[b])]

\* the loop condition of main, left operand: trivial_dead_code_elimination;
\* when it changed something the right operand is not evaluated
TrivialDeadCodeElimination ==
    /\ pc = "tdce"
    /\ LET used_variables == UsedVariables(cfg.vertices)
           dropped == [b \in DOMAIN cfg.vertices |->
                          TriviallyDead(used_variables,
                                        cfg.vertices[b].instructions)]
           changed == \E b \in DOMAIN cfg.vertices : dropped[b] # {}
       IN  /\ DropFromBlocks(dropped)
           /\ pc' = IF changed THEN "tdce" ELSE "tdce_locals"
    /\ UNCHANGED notTdce

\* the loop condition of main, right operand: drop_lots_of_killed_local;
\* the loop ends when it changed nothing either
DropLotsOfKilledLocal ==
    /\ pc = "tdce_locals"
    /\ LET dropped == [b \in DOMAIN cfg.vertices |->
                          DropKilledLocals(cfg.vertices[b].instructions)]
           changed == \E b \in DOMAIN cfg.vertices : dropped[b] # {}
       IN  /\ DropFromBlocks(dropped)
           /\ pc' = IF changed THEN "tdce" ELSE "tdce_done"
    /\ UNCHANGED notTdce

NextTdce == TrivialDeadCodeElimination \/ DropLotsOfKilledLocal

SpecTdce == InitTdce /\ [][NextTdce]_vars

\* the CFG main of tdce started from
TdceInput == BuildCfgOf(function, prune).cfg

\* no instruction of instructions[lo..hi] defines d
NoDefinitionIn(instructions, lo, hi, d) ==
    \A k \in lo..hi : Kill(instructions[k]) # Some(d)

\* the blocks entered from some block of seen along a path whose inner
\* blocks do not define d
RECURSIVE EnteredFrom(_, _, _)
EnteredFrom(g, d, seen) ==
    LET open == {c \in seen :
                    NoDefinitionIn(g.vertices[c].instructions, 1,
                                   Len(g.vertices[c].instructions), d)}
        next == seen \cup UNION {SeqToSet(Successors(g, c)) : c \in open}
    IN  IF next = seen THEN seen ELSE EnteredFrom(g, d, next)

\* in g the definition made by instruction i of block b reaches instruction
\* j of block b2: some path leads from the one to the other without another
\* definition of the same destination
DefinitionReaches(g, b, i, b2, j) ==
    LET d == g.vertices[b].instructions[i].dest
        from == g.vertices[b].instructions
        to == g.vertices[b2].instructions
    IN  \/ b = b2 /\ i < j /\ NoDefinitionIn(from, i + 1, j - 1, d)
        \/ /\ NoDefinitionIn(from, i + 1, Len(from), d)
           /\ NoDefinitionIn(to, 1, j - 1, d)
           /\ b2 \in EnteredFrom(g, d, SeqToSet(Successors(g, b)))

\* the (block, index) pairs of the definitions of the input that have been
\* removed
RemovedDefinitions ==
    {r \in UNION {{<<b, i>> : i \in DOMAIN TdceInput.vertices[b].instructions} :
                    b \in DOMAIN TdceInput.vertices} :
        /\ IsDefinition(TdceInput.vertices[r[1]].instructions[r[2]])
        /\ r[2] \notin SeqToSet(tdce_origin[r[1]])}

\* the (block, index) pairs, by their index in the input, of the
\* instructions that remain and have d in their arguments
RemainingUses(d) ==
    UNION {{<<b, tdce_origin[b][k]>> :
              k \in {k \in DOMAIN cfg.vertices[b].instructions :
                        Contains(GenSet(cfg.vertices[b].instructions[k]), d)}} :
             b \in DOMAIN cfg.vertices}

\* C12 (as claimed): at the fixed point of the driver loop, no instruction
\* that remains has the destination of a removed Const/Value instruction
\* in its argument set.
C12_NoUseOfRemovedDestination ==
    pc = "tdce_done" =>
        \A r \in RemovedDefinitions :
            RemainingUses(TdceInput.vertices[r[1]].instructions[r[2]].dest) = {}

\* C12 (amended): at the fixed point of the driver loop, no instruction
\* that remains reads what a removed Const/Value instruction wrote: in the
\* input CFG the removed definition does not reach any remaining
\* instruction that has its destination in its argument set.
C12_NoUseOfRemovedDefinition ==
    pc = "tdce_done" =>
        \A r \in RemovedDefinitions :
            \A u \in RemainingUses(
                        TdceInput.vertices[r[1]].instructions[r[2]].dest) :
                ~DefinitionReaches(TdceInput, r[1], r[2], u[1], u[2])

\* the loop has ended having removed a definition whose destination a
\* remaining instruction still names
C12_Witness ==
    /\ pc = "tdce_done"
    /\ \E r \in RemovedDefinitions :
          RemainingUses(TdceInput.vertices[r[1]].instructions[r[2]].dest) # {}

(***************************************************************************)
(* The live variables instance (lesson4/dataflow/src/live_variables.rs)    *)
(* and solve_dataflow in the Backward direction.                           *)
(***************************************************************************)
\* live_variables::transfer, the loop from instruction k of the block on
RECURSIVE LiveTransferFrom(_, _, _, _, _)
LiveTransferFrom(instructions, k, kill_set, gen_set, outputs) ==
    IF k > Len(instructions) THEN outputs \cup gen_set
    ELSE
      LET kill == Kill(instructions[k])
          gen == gen_set \cup (SeqToSet(GenSet(instructions[k])) \ kill_set)
      IN  IF kill = None
          THEN LiveTransferFrom(instructions, k + 1, kill_set, gen, outputs)
          ELSE LiveTransferFrom(instructions, k + 1, kill_set \cup {kill[1]},
                                gen, outputs \ {kill[1]})

\* live_variables::transfer
LiveTransfer(g, block_idx, outputs) ==
    LiveTransferFrom(g.vertices[block_idx].instructions, 1, {}, {}, outputs)

\* the tool has built the CFG of a function and runs one of the analyses
InitSolve ==
    /\ pc \in {"df_start", "lv_start"}
    /\ function \in SeqsUpTo(DfItems, MaxDfCode)
    /\ prune \in BOOLEAN
    /\ BuildCfgOf(function, prune).ok
    /\ cfg = BuildCfgOf(function, prune).cfg
    /\ arguments = <<"x", "y">>
    /\ df_blocks = <<>>
    /\ df_solution = <<>>
    /\ df_initial_in = {}
    /\ LvnIdle
    /\ DomIdle
    /\ SsaIdle
    /\ TdceIdle
    /\ LoopIdle
    /\ LicmIdle

\* solve_dataflow (Backward, no entry inputs) up to its loop
LiveStart ==
    /\ pc = "lv_start"
    /\ df_blocks' = ConstructPostorder(cfg)
    /\ df_solution' = [block_idx \in DOMAIN cfg.vertices |-> {}]
    /\ df_initial_in' = {}
    /\ pc' = "lv_loop"
    /\ UNCHANGED <<arguments, notDf>>

\* one iteration of the worklist loop of solve_dataflow (Backward)
LiveStep ==
    /\ pc = "lv_loop"
    /\ df_blocks # <<>>
    /\ LET current == Head(df_blocks)
           merged == MergeAll(df_solution, Successors(cfg, current), 1,
                              df_initial_in)
           previous_out == df_solution[current]
           new_out == LiveTransfer(cfg, current, merged)
       IN  /\ df_solution' = IF new_out # previous_out
                             THEN [df_solution EXCEPT ![current] = new_out]
                             ELSE df_solution
           /\ df_blocks' = NextBlocks(df_blocks, new_out # previous_out,
                                      Predecessors(cfg, current))
    /\ df_initial_in' = {}
    /\ UNCHANGED <<pc, arguments, notDf>>

\* the worklist is empty: solve_dataflow returns the solution
LiveReturn ==
    /\ pc = "lv_loop"
    /\ df_blocks = <<>>
    /\ pc' = "lv_done"
    /\ UNCHANGED <<dfVars, notDf>>

NextSolve == NextRd \/ LiveStart \/ LiveStep \/ LiveReturn

\* the analyses are sequential programs: a step that can be taken is taken
SpecSolve == InitSolve /\ [][NextSolve]_vars /\ WF_vars(NextSolve)

C14_OnlyEntryLacksLabel ==
    pc = "built" =>
        /\ \A b \in DOMAIN cfg.vertices \ {cfg.entry} :
              cfg.vertices[b].label # None
        /\ {b \in DOMAIN cfg.vertices : cfg.vertices[b].is_entry} = {cfg.entry}

(***************************************************************************)
(* The loop optimizer (loop-opt main): build the CFG with pruning, make    *)
(* the fallthroughs explicit, compute dominators and the dominator tree,   *)
(* collect back edges and natural loops, then give every natural loop a    *)
(* preheader.                                                              *)
(***************************************************************************)
\* longest input instruction sequence of the loop-optimizer runs
MaxLoopCode == 6

\* compute_dominator_tree without its second loop: tree = rev
ComputeDominatorTreeKeepingAll(doms) ==
    LET keys == UNION {doms[idx] : idx \in DOMAIN doms}
    IN  [d \in keys |-> {idx \in DOMAIN doms : d \in doms[idx] /\ idx # d}]

\* dominators::compute_dominator_tree: rev[d] holds the blocks d strictly
\* dominates; tree[idx] keeps of rev[idx] what no other block that does not
\* strictly dominate idx strictly dominates
ComputeDominatorTree(doms) ==
    LET keys == UNION {doms[idx] : idx \in DOMAIN doms}
        rev == [d \in keys |-> {idx \in DOMAIN doms : d \in doms[idx] /\ idx # d}]
    IN  [idx \in keys |->
            rev[idx] \ UNION {rev[other_idx] :
                                other_idx \in {o \in keys \ {idx} :
                                                 idx \notin rev[o]}}]

\* the pairs the nested for loops of main push onto back_edges for `start`
RECURSIVE BackEdgesOf(_, _, _, _)
BackEdgesOf(tree, start, successors, k) ==
    IF k > Len(successors) THEN <<>>
    ELSE (IF start \in tree[successors[k]]
          THEN <<<<start, successors[k]>>>> ELSE <<>>)
         \o BackEdgesOf(tree, start, successors, k + 1)

RECURSIVE CollectBackEdges(_, _, _, _)
CollectBackEdges(g, tree, keys, k) ==
    IF k > Len(keys) THEN <<>>
    ELSE BackEdgesOf(tree, keys[k], Successors(g, keys[k]), 1)
         \o CollectBackEdges(g, tree, keys, k + 1)

\* the while loop of main that fills natural_loop from its stack
RECURSIVE NaturalLoopBody(_, _, _)
NaturalLoopBody(g, natural_loop, stack) ==
    IF stack = <<>> THEN natural_loop
    ELSE LET next == stack[Len(stack)]
             rest == SubSeq(stack, 1, Len(stack) - 1)
         IN  IF next \in natural_loop
             THEN NaturalLoopBody(g, natural_loop, rest)
             ELSE NaturalLoopBody(g, natural_loop \cup {next},
                                  rest \o Predecessors(g, next))

\* struct NaturalLoop for the back edge (start, end)
NaturalLoop(g, start, end) ==
    [header |-> end, backedge_start |-> start,
     body |-> NaturalLoopBody(g, {end}, <<start>>)]

\* the key FunctionCfg::add_block returns: one no block of the map holds
NewBlockIdx(g) ==
    (CHOOSE m \in DOMAIN g.vertices : \A x \in DOMAIN g.vertices : x <= m) + 1

\* FunctionCfg::add_block: the block enters vertices and nothing else
AddBlock(g, block) ==
    [g EXCEPT !.vertices = MapPut(@, NewBlockIdx(g), block)]

\* format!("{}_preheader", label of the header or "")
PreheaderLabel(g, header) ==
    (IF g.vertices[header].label = None THEN ""
     ELSE g.vertices[header].label[1]) \o "_preheader"

\* the for loop over cfg.predecessors(header).to_vec(); ok turns FALSE where
\* reorient_edge panics
RECURSIVE ReorientAll(_, _, _, _, _)
ReorientAll(r, predecessors, k, header, preheader) ==
    IF k > Len(predecessors) \/ ~r.ok THEN r
    ELSE IF ~CanReorientEdge(r.cfg, predecessors[k], header, preheader)
    THEN [r EXCEPT !.ok = FALSE]
    ELSE ReorientAll(
            [r EXCEPT !.cfg = ReorientEdge(@, predecessors[k], header,
                                           preheader)],
            predecessors, k + 1, header, preheader)

\* one iteration of the preheader loop of main, for the loop headed by header
InsertPreheader(g, header) ==
    LET preheader == NewBlockIdx(g)
        added == AddBlock(g, [DefaultBlock EXCEPT
                                 !.label = Some(PreheaderLabel(g, header))])
        r == ReorientAll([ok |-> TRUE, cfg |-> added],
                         Predecessors(added, header), 1, header, preheader)
    IN  IF ~r.ok \/ ~CanSetUnconditionalEdge(r.cfg, preheader, header)
        THEN [ok |-> FALSE, cfg |-> r.cfg, preheader |-> preheader]
        ELSE [ok |-> TRUE,
              cfg |-> SetUnconditionalEdge(r.cfg, preheader, header),
              preheader |-> preheader]

LoopItems ==
    {CodeLabel("a"), CodeLabel("b"), CodeLabel("j"),
     Jump("a"), Branch("c", "b", "j")}

InitLoop ==
    /\ pc = "loop_start"
    /\ function \in SeqsUpTo(LoopItems, MaxLoopCode)
    /\ prune = TRUE
    /\ BuildCfgOf(function, prune).ok
    /\ cfg = BuildCfgOf(function, prune).cfg
    /\ LvnIdle
    /\ DfIdle
    /\ DomIdle
    /\ SsaIdle
    /\ TdceIdle
    /\ LoopIdle
    /\ LicmIdle

\* cfg.make_fallthroughs_explicit(), main line 71
LoopMakeFallthroughsExplicit ==
    /\ pc = "loop_start"
    /\ cfg' = MakeFallthroughsExplicitOf(cfg)
    /\ pc' = "dom_start"
    /\ UNCHANGED <<function, prune, notCfg>>

\* compute_dominator_tree and the back-edge loops, main lines 74-83
LoopBackEdges ==
    /\ pc = "dom_done"
    /\ dominance_tree' = ComputeDominatorTree(dominators)
    /\ back_edges' = CollectBackEdges(cfg, dominance_tree',
                                      SortedKeys(DOMAIN cfg.vertices), 1)
    /\ pc' = "back_edges_done"
    /\ UNCHANGED <<cfgVars, domVars, natural_loops,
                   natural_loops_with_preheaders, loop_next, notLoop>>

\* main lines 85-112
LoopNaturalLoops ==
    /\ pc = "back_edges_done"
    /\ natural_loops' =
          [k \in DOMAIN back_edges |->
              NaturalLoop(cfg, back_edges[k][1], back_edges[k][2])]
    /\ loop_next' = 1
    /\ pc' = "preheaders"
    /\ UNCHANGED <<cfgVars, domVars, dominance_tree, back_edges,
                   natural_loops_with_preheaders, notLoop>>

\* one iteration of the loop of main lines 114-145
LoopInsertPreheader ==
    /\ pc = "preheaders"
    /\ loop_next <= Len(natural_loops)
    /\ LET natural_loop == natural_loops[loop_next]
           r == InsertPreheader(cfg, natural_loop.header)
       IN  /\ cfg' = r.cfg
           /\ IF r.ok
              THEN /\ natural_loops_with_preheaders' =
                         Append(natural_loops_with_preheaders,
                                [preheader |-> r.preheader,
                                 header |-> natural_loop.header,
                                 backedge_start |-> natural_loop.backedge_start,
                                 body |-> natural_loop.body])
                   /\ loop_next' = loop_next + 1
                   /\ pc' = "preheaders"
              ELSE /\ UNCHANGED <<natural_loops_with_preheaders, loop_next>>
                   /\ pc' = "loop_panic"
    /\ UNCHANGED <<function, prune, domVars, dominance_tree, back_edges,
                   natural_loops, notLoop>>

\* every natural loop has its preheader
LoopPreheadersDone ==
    /\ pc = "preheaders"
    /\ loop_next > Len(natural_loops)
    /\ pc' = "preheaders_done"
    /\ UNCHANGED <<cfgVars, domVars, loopVars, notLoop>>

NextLoop ==
    \/ LoopMakeFallthroughsExplicit
    \/ DomStart
    \/ DomPassBegin
    \/ DomBlock
    \/ DomReturn
    \/ LoopBackEdges
    \/ LoopNaturalLoops
    \/ LoopInsertPreheader
    \/ LoopPreheadersDone

SpecLoop == InitLoop /\ [][NextLoop]_vars

\* no two blocks of g carry the same label
LabelsUnique(g) ==
    \A b1, b2 \in DOMAIN g.vertices :
        (/\ b1 # b2
         /\ g.vertices[b1].label # None
         /\ g.vertices[b2].label # None)
        => g.vertices[b1].label # g.vertices[b2].label

\* the CFG the loop optimizer started from
LoopInput == BuildCfgOf(function, prune).cfg

\* C15: when the labels of the input function are unique, then once the
\* loop optimizer has inserted its preheaders no two blocks of the CFG carry
\* the same label, however many back edges share a header.
C15_LabelsStayUnique ==
    (pc = "preheaders_done" /\ LabelsUnique(LoopInput)) => LabelsUnique(cfg)

\* the edges (t, h) of g, as pairs
EdgesOf(g) ==
    UNION {{<<t, h>> : h \in SeqToSet(Successors(g, t))} : t \in DOMAIN g.edges}

\* C20: the loop optimizer takes the edge (t, h) for a back edge exactly
\* when h is in dom[t]; that covers the self-loop t = h and the edge from a
\* block whose immediate dominator is not h.
C20_BackEdgesAreDominatedEdges ==
    pc = "back_edges_done" =>
        \A e \in EdgesOf(cfg) :
            Contains(back_edges, e) <=> e[2] \in dominators[e[1]]

(***************************************************************************)
(* Value numbering as the claims about lvn word it: every variable holds   *)
(* a numbered term, two instructions compute the same value when their     *)
(* terms are equal.  `get`, `call` and `alloc` make a term of their own.   *)
(***************************************************************************)
\* the ops whose argument order does not matter
ClaimedCommutativeOps ==
    {"add", "mul", "eq", "and", "or", "fadd", "fmul", "feq"}

\* the ops whose result is never merged with another
OpaqueOps == {"get", "call", "alloc"}

Term(op, name, args, lit) ==
    [op |-> op, name |-> name, args |-> args, lit |-> lit]

\* the number of term t in terms, which gains t when it lacks it
Intern(terms, t) ==
    IF \E k \in DOMAIN terms : terms[k] = t
    THEN [terms |-> terms, id |-> CHOOSE k \in DOMAIN terms : terms[k] = t]
    ELSE [terms |-> Append(terms, t), id |-> Len(terms) + 1]

\* the numbers of the values the variables of args hold; a variable nothing
\* wrote yet holds the value it had when the block was entered
RECURSIVE ArgIds(_, _, _, _)
ArgIds(terms, env, args, k) ==
    IF k > Len(args) THEN [terms |-> terms, ids |-> <<>>]
    ELSE LET first == IF args[k] \in DOMAIN env
                      THEN [terms |-> terms, id |-> env[args[k]]]
                      ELSE Intern(terms, Term("input", args[k], <<>>, 0))
             rest == ArgIds(first.terms, env, args, k + 1)
         IN  [terms |-> rest.terms, ids |-> <<first.id>> \o rest.ids]

RECURSIVE SortedIds(_)
SortedIds(ids) ==
    IF ids = <<>> THEN <<>>
    ELSE LET m == CHOOSE k \in DOMAIN ids : \A j \in DOMAIN ids : ids[k] <= ids[j]
         IN  <<ids[m]>> \o
             SortedIds([j \in 1..(Len(ids) - 1) |->
                           IF j < m THEN ids[j] ELSE ids[j + 1]])

\* the numbering after instruction k of the block; known tells of each
\* instruction whether it computed a term an earlier one had computed, read
\* holds the terms of the values its arguments held
RECURSIVE Numbering(_, _, _)
Numbering(instructions, k, st) ==
    IF k > Len(instructions) THEN st
    ELSE
      LET ins == instructions[k]
          a == ArgIds(st.terms, st.env, ins.args, 1)
          t == IF ins.kind = "const"
               THEN Term("const", ins.type, <<>>, ins.value.n)
               ELSE IF ins.op \in OpaqueOps
               THEN Term("opaque", "", <<>>, k)
               ELSE Term(ins.op, "",
                         IF ins.op \in ClaimedCommutativeOps
                         THEN SortedIds(a.ids) ELSE a.ids, 0)
          r == Intern(a.terms, t)
      IN  IF ins.kind \notin {"const", "value"}
          THEN Numbering(instructions, k + 1,
                         [st EXCEPT !.known = Append(@, FALSE),
                                    !.read = Append(@, <<>>)])
          ELSE Numbering(instructions, k + 1,
                  [terms |-> r.terms,
                   env |-> MapPut(st.env, ins.dest, r.id),
                   known |-> Append(st.known,
                                    \E j \in DOMAIN a.terms : a.terms[j] = t),
                   read |-> Append(st.read,
                                   [j \in DOMAIN a.ids |-> a.terms[a.ids[j]]])])

\* whether instruction k of the block recomputes what an earlier one computed
NumberingOf(instructions) ==
    Numbering(instructions, 1,
              [terms |-> <<>>, env |-> EmptyMap, known |-> <<>>, read |-> <<>>])

ComputedEarlier(instructions) == NumberingOf(instructions).known

\* the Value instructions C16 speaks of: those lvn numbers by op and
\* arguments and that are not an `id` already
IsOperation(instruction) ==
    /\ instruction.kind = "value"
    /\ instruction.op \notin OpaqueOps \cup {"id"}

\* C16: lvn turns a Value instruction into `dest = id c` exactly when an
\* earlier instruction of the block computed the same op on the same
\* argument values, the argument order being ignored for the commutative
\* ops and kept for the others.
C16_MergedExactlyWhenComputedEarlier ==
    pc = "lvn_done" =>
        \A k \in DOMAIN lvn_input :
            IsOperation(lvn_input[k]) =>
                ((lvn_block[k].kind = "value" /\ lvn_block[k].op = "id")
                   <=> ComputedEarlier(lvn_input)[k])

\* the terms of the values the arguments of instruction k hold
ArgumentTerms(instructions, k) == NumberingOf(instructions).read[k]

\* both arguments hold an integer constant an earlier instruction defined
HasIntConstantArgs(instructions, k) ==
    \A j \in DOMAIN ArgumentTerms(instructions, k) :
        LET t == ArgumentTerms(instructions, k)[j]
        IN  t.op = "const" /\ t.name = "int"

SumOfArgs(instructions, k) ==
    LET read == ArgumentTerms(instructions, k)
    IN  read[1].lit + read[2].lit

IsAdd(instruction) == instruction.kind = "value" /\ instruction.op = "add"

\* C17: lvn replaces `dest = add x y` by a Const holding the sum whenever
\* both arguments hold integer constants defined earlier in the block and
\* the add is not a value already known; an add one of whose arguments is
\* not such a constant is left as an add.
C17_AddOfConstantsIsFolded ==
    pc = "lvn_done" =>
        \A k \in DOMAIN lvn_input :
            IsAdd(lvn_input[k]) =>
                /\ (/\ HasIntConstantArgs(lvn_input, k)
                    /\ ~ComputedEarlier(lvn_input)[k])
                   => /\ lvn_block[k].kind = "const"
                      /\ lvn_block[k].value = IntLit(SumOfArgs(lvn_input, k))
                /\ ~HasIntConstantArgs(lvn_input, k) => IsAdd(lvn_block[k])

(***************************************************************************)
(* The contracts of the two edge primitives, on the steps of the           *)
(* edge-maintenance runs.                                                  *)
(***************************************************************************)
\* rev_edges[b] of g, the empty list where b has no entry
RevEdgesAt(g, b) == IF b \in DOMAIN g.rev_edges THEN g.rev_edges[b] ELSE <<>>

\* the step from g to h is the call reorient_edge(start_block, old_end_block,
\* end_block) the contract speaks of
IsReorientCall(g, h, start_block, old_end_block, end_block) ==
    /\ NoFallthroughs(g)
    /\ start_block \in DOMAIN g.edges
    /\ g.edges[start_block].tag # "Return"
    /\ Contains(Successors(g, start_block), old_end_block)
    /\ CanReorientEdge(g, start_block, old_end_block, end_block)
    /\ h = ReorientEdge(g, start_block, old_end_block, end_block)

\* what the contract promises of rev_edges after that call
ReorientContract(g, h, start_block, old_end_block, end_block) ==
    /\ Count(RevEdgesAt(h, end_block), start_block) = 1
    /\ Contains(RevEdgesAt(h, old_end_block), start_block)
          <=> Contains(Successors(h, start_block), old_end_block)
    /\ \A b \in (DOMAIN g.rev_edges \cup DOMAIN h.rev_edges)
                   \ {old_end_block, end_block} :
          RevEdgesAt(h, b) = RevEdgesAt(g, b)

\* a call on a block whose exit is Return changes nothing
ReorientOfReturnIsNoOp ==
    pc = "explicit" =>
        \A start_block \in DOMAIN cfg.edges :
            cfg.edges[start_block].tag = "Return" =>
                \A old_end_block, end_block \in DOMAIN cfg.vertices :
                    ReorientEdge(cfg, start_block, old_end_block, end_block)
                      = cfg

\* C18: on a CFG without fallthroughs, reorient_edge(start, old_end, new_end)
\* for a successor old_end of a block start whose exit is not Return leaves
\* start exactly once in rev_edges[new_end], keeps start in
\* rev_edges[old_end] exactly when old_end is still a successor of start,
\* and changes no other rev_edges entry; on a Return exit it changes nothing.
C18_ReorientEdgeKeepsRevEdges ==
    /\ [][pc = "explicit" =>
            \A start_block, old_end_block, end_block \in DOMAIN cfg.vertices :
                IsReorientCall(cfg, cfg', start_block, old_end_block,
                               end_block)
                => ReorientContract(cfg, cfg', start_block, old_end_block,
                                    end_block)]_vars
    /\ []ReorientOfReturnIsNoOp

\* the step from g to h is the call set_unconditional_edge(start_block,
\* end_block) the contract speaks of
IsSetUnconditionalCall(g, h, start_block, end_block) ==
    /\ CanSetUnconditionalEdge(g, start_block, end_block)
    /\ h = SetUnconditionalEdge(g, start_block, end_block)

\* what the contract promises after that call
SetUnconditionalContract(g, h, start_block, end_block) ==
    LET end_label == g.vertices[end_block].label[1]
        instructions == h.vertices[start_block].instructions
    IN  /\ instructions # <<>>
        /\ instructions[Len(instructions)] = Jump(end_label)
        /\ h.vertices[start_block].exit = LUnconditional(end_label)
        /\ h.edges[start_block] = EUnconditional(end_block)
        /\ Count(RevEdgesAt(h, end_block), start_block) = 1
        /\ \A old \in DOMAIN g.vertices \ {end_block} :
              (start_block \in DOMAIN g.edges
                 /\ Contains(Successors(g, start_block), old))
              => ~Contains(RevEdgesAt(h, old), start_block)
        /\ SetUnconditionalEdge(h, start_block, end_block) = h

\* C19: after set_unconditional_edge(start, end) on a block whose exit is
\* Fallthrough or Unconditional, the trailing jmp, the LabeledExit and edges
\* all target end, start is listed once in rev_edges[end], start is no
\* longer in rev_edges[old] for the replaced target old # end, and a second
\* identical call changes nothing.
C19_SetUnconditionalEdgeContract ==
    [][pc = "explicit" =>
          \A start_block, end_block \in DOMAIN cfg.vertices :
              IsSetUnconditionalCall(cfg, cfg', start_block, end_block)
              => SetUnconditionalContract(cfg, cfg', start_block,
                                          end_block)]_vars

(***************************************************************************)
(* Further claims about the dominator analyses.                            *)
(***************************************************************************)
\* C27: for a block b the entry does not reach, compute_dominators returns
\* dom[b] = {b}.
C27_UnreachableBlockDominatedByItself ==
    pc \in {"dom_done", "frontiers_done"} =>
        \A b \in DOMAIN cfg.vertices \ Reachable(cfg) : dominators[b] = {b}

\* d strictly dominates b in g
StrictlyDominates(g, d, b) == d # b /\ Dominates(g, d, b)

\* d is the immediate dominator of b: it strictly dominates b and strictly
\* dominates no other strict dominator of b
IsImmediateDominator(g, d, b) ==
    /\ StrictlyDominates(g, d, b)
    /\ \A o \in DOMAIN g.vertices :
          StrictlyDominates(g, o, b) => ~StrictlyDominates(g, d, o)

\* C28: on a CFG all of whose blocks the entry reaches, compute_dominator_tree
\* returns for each block idx exactly the blocks whose immediate dominator is
\* idx: every non-entry block is in tree[d] for exactly one d, its immediate
\* dominator, and the entry is in no tree set.
C28_DominatorTreeIsImmediateDominators ==
    (pc = "back_edges_done" /\ Reachable(cfg) = DOMAIN cfg.vertices) =>
        /\ DOMAIN dominance_tree = DOMAIN cfg.vertices
        /\ \A idx \in DOMAIN cfg.vertices :
              dominance_tree[idx] =
                 {b \in DOMAIN cfg.vertices : IsImmediateDominator(cfg, idx, b)}
        /\ \A b \in DOMAIN cfg.vertices \ {cfg.entry} :
              Cardinality({d \in DOMAIN dominance_tree :
                             b \in dominance_tree[d]}) = 1
        /\ \A d \in DOMAIN dominance_tree : cfg.entry \notin dominance_tree[d]

\* the tree was computed for a fully reachable CFG in which some block has
\* two strict dominators and some block has two children
C28_Witness ==
    /\ pc = "back_edges_done"
    /\ Reachable(cfg) = DOMAIN cfg.vertices
    /\ \E b \in DOMAIN cfg.vertices : Cardinality(dominators[b]) >= 3
    /\ \E d \in DOMAIN dominance_tree : Cardinality(dominance_tree[d]) >= 2

(***************************************************************************)
(* Further claims about the SSA passes.                                    *)
(***************************************************************************)
\* the least set S with df(b) in S for every b of start \cup S
RECURSIVE IteratedFrontier(_, _, _)
IteratedFrontier(dominance_frontiers, start, S) ==
    LET next == S \cup UNION {dominance_frontiers[b] : b \in start \cup S}
    IN  IF next = S THEN S
        ELSE IteratedFrontier(dominance_frontiers, start, next)

\* the phi blocks determine_phi_insertion_points returned for variable
PointsOf(variable) ==
    IF variable \in DOMAIN phi_insertion_points
    THEN phi_insertion_points[variable].blocks ELSE {}

\* C26: determine_phi_insertion_points returns for each variable v the
\* iterated dominance frontier of its definition sites, the least set S with
\* df(b) a subset of S for every block b of defsites(v) \cup S.
C26_PhiPointsAreIteratedFrontier ==
    pc \in {"points_done", "phis_done", "ssa_done"} =>
        \A variable \in DOMAIN definition_sites :
            PointsOf(variable) =
               IteratedFrontier(frontiers,
                                SeqToSet(definition_sites[variable].blocks),
                                {})

\* the CFG from_ssa was called on
FromSsaInput == BuildCfgOf(function, prune).cfg

\* the instructions of g, all blocks together
InstructionsOf(g) ==
    UNION {SeqToSet(g.vertices[b].instructions) : b \in DOMAIN g.vertices}

\* the types of the gets of g that define d
GetTypes(g, d) ==
    {i.type : i \in {x \in InstructionsOf(g) : IsGet(x) /\ x.dest = d}}

\* every set of g has a get of g that defines its destination
EverySetHasGet(g) ==
    \A i \in InstructionsOf(g) : IsSet(i) => GetTypes(g, i.args[1]) # {}

\* new stands where from_ssa is to put the instruction old of g
IsFromSsaImage(g, old, new) ==
    IF IsSet(old)
    THEN /\ new.type \in GetTypes(g, old.args[1])
         /\ new = Value(old.args[1], new.type, "id", <<old.args[2]>>)
    ELSE new = old

\* C29: on a CFG in which every set has a matching get, from_ssa removes
\* every get and replaces each `set d s` where it stands by `d = id s` with
\* the type of the get defining d; every other instruction is unchanged and
\* the instructions that remain keep their order in each block.
C29_FromSsaRemovesGetsAndReplacesSets ==
    (pc = "from_ssa_done" /\ EverySetHasGet(FromSsaInput)) =>
        /\ from_ssa_result = "Ok"
        /\ DOMAIN cfg.vertices = DOMAIN FromSsaInput.vertices
        /\ \A b \in DOMAIN cfg.vertices :
              LET kept == SelectSeq(FromSsaInput.vertices[b].instructions,
                                    LAMBDA i : ~IsGet(i))
                  now == cfg.vertices[b].instructions
              IN  /\ Len(now) = Len(kept)
                  /\ \A k \in DOMAIN kept :
                        IsFromSsaImage(FromSsaInput, kept[k], now[k])
        /\ cfg = [FromSsaInput EXCEPT
                     !.vertices = [b \in DOMAIN cfg.vertices |->
                                      [@[b] EXCEPT !.instructions =
                                          cfg.vertices[b].instructions]]]

\* from_ssa has returned Ok on a block that holds a float get, a set of its
\* destination behind another instruction, and an instruction after the get
C29_Witness ==
    /\ pc = "from_ssa_done"
    /\ from_ssa_result = "Ok"
    /\ EverySetHasGet(FromSsaInput)
    /\ \E b \in DOMAIN cfg.vertices :
          LET before == FromSsaInput.vertices[b].instructions
          IN  /\ Len(before) >= 3
              /\ IsGet(before[1]) /\ before[1].type = "float"
              /\ ~IsSet(before[2]) /\ ~IsGet(before[2])
              /\ IsSet(before[3]) /\ before[3].args[1] = before[1].dest

(***************************************************************************)
(* The driver loop of the dead-code elimination as a terminating program.  *)
(***************************************************************************)
\* the steps of the loop are taken as long as one is possible
SpecTdceLive == InitTdce /\ [][NextTdce]_vars /\ WF_vars(NextTdce)

\* instruction i of the block is overwritten by instruction j before
\* anything, j included, reads what it wrote
KilledBeforeUse(instructions, i, j) ==
    /\ i < j
    /\ IsDefinition(instructions[i])
    /\ IsDefinition(instructions[j])
    /\ instructions[j].dest = instructions[i].dest
    /\ \A k \in (i + 1)..j :
          ~Contains(GenSet(instructions[k]), instructions[i].dest)

\* the Effect instructions of a block, in order
EffectsOf(instructions) ==
    SelectSeq(instructions, LAMBDA i : i.kind = "effect")

\* what holds of the function the driver loop leaves behind
TdceFixedPoint ==
    /\ \A b \in DOMAIN cfg.vertices :
       \A k \in DOMAIN cfg.vertices[b].instructions :
          IsDefinition(cfg.vertices[b].instructions[k]) =>
             cfg.vertices[b].instructions[k].dest
                \in UsedVariables(cfg.vertices)
    /\ \A b \in DOMAIN cfg.vertices :
       \A i, j \in DOMAIN cfg.vertices[b].instructions :
          ~KilledBeforeUse(cfg.vertices[b].instructions, i, j)
    /\ \A b \in DOMAIN cfg.vertices :
          EffectsOf(cfg.vertices[b].instructions)
             = EffectsOf(TdceInput.vertices[b].instructions)

\* C30: the driver loop of the elimination terminates, and when it stops
\* every remaining Const/Value destination is read by a remaining
\* instruction, no block holds a definition overwritten later in the block
\* without a read in between, and no Effect instruction has been removed.
C30_DriverLoopReachesFixedPoint ==
    /\ <>(pc = "tdce_done")
    /\ [](pc = "tdce_done" => TdceFixedPoint)

\* the loop has stopped after removing two instructions of a block that
\* still holds an Effect
C30_Witness ==
    /\ pc = "tdce_done"
    /\ \E b \in DOMAIN cfg.vertices :
          /\ Len(cfg.vertices[b].instructions) + 2
                <= Len(TdceInput.vertices[b].instructions)
          /\ EffectsOf(cfg.vertices[b].instructions) # <<>>

(***************************************************************************)
(* Loop-invariant code motion (lesson8/loop-opt/src/main.rs, lines         *)
(* 152-347).  Instruction indices are the positions 1, 2, ... of the       *)
(* instruction sequences: the code's index i is the position i + 1.        *)
(***************************************************************************)
\* the definitions compute_reaching_definitions returns: name, value, block
\* and the position of the defining instruction in the block
IndexedDefinition(name, value, block_idx, instruction_idx) ==
    [name |-> name, value |-> value, block |-> block_idx,
     index |-> instruction_idx]

\* the transfer function of compute_reaching_definitions, from instruction k
\* of the block on
RECURSIVE IndexedTransferFrom(_, _, _, _)
IndexedTransferFrom(instructions, block_idx, k, inputs) ==
    IF k > Len(instructions) THEN inputs
    ELSE
      LET kill == Kill(instructions[k])
      IN  IndexedTransferFrom(instructions, block_idx, k + 1,
            IF kill # None
            THEN {input \in inputs : input.name # kill[1]}
                   \cup {IndexedDefinition(kill[1],
                                           ValueOf(instructions[k])[1],
                                           block_idx, k)}
            ELSE inputs)

\* the worklist loop of solve_dataflow (Forward) run to its end
RECURSIVE SolveReachingDefinitions(_, _, _, _)
SolveReachingDefinitions(g, blocks, solution, initial_in) ==
    IF blocks = <<>> THEN solution
    ELSE
      LET current == Head(blocks)
          merged == MergeAll(solution, Predecessors(g, current), 1, initial_in)
          previous_out == solution[current]
          new_out == IndexedTransferFrom(g.vertices[current].instructions,
                                         current, 1, merged)
      IN  SolveReachingDefinitions(g,
              NextBlocks(blocks, new_out # previous_out,
                         Successors(g, current)),
              IF new_out # previous_out
              THEN [solution EXCEPT ![current] = new_out]
              ELSE solution,
              {})

\* compute_reaching_definitions of a function without arguments
ComputeReachingDefinitions(g) ==
    SolveReachingDefinitions(g, Reverse(ConstructPostorder(g)),
                             [block_idx \in DOMAIN g.vertices |-> {}], {})

\* the test of main lines 172-206 on instruction i of a block of the body:
\* a Constant, or a Value every argument of which passes
IsLoopInvariant(g, reaching, body, block, i, marked) ==
    LET instruction == g.vertices[block].instructions[i]
    IN  IF instruction.kind = "value"
        THEN \A a \in DOMAIN instruction.args :
               LET reaching_definitions_of_arg ==
                     {definition \in reaching[block] :
                         definition.name = instruction.args[a]}
               IN  \/ \A definition \in reaching_definitions_of_arg :
                          definition.block \notin body
                   \/ /\ Cardinality(reaching_definitions_of_arg) = 1
                      /\ \E definition \in reaching_definitions_of_arg :
                            /\ definition.block \in DOMAIN marked
                            /\ definition.index \in marked[definition.block]
        ELSE instruction.kind = "const"

\* the inner for loop of main lines 168-221 over the instructions of a block
RECURSIVE MarkInstructions(_, _, _, _, _, _)
MarkInstructions(g, reaching, body, block, i, marked) ==
    IF i > Len(g.vertices[block].instructions) THEN marked
    ELSE MarkInstructions(g, reaching, body, block, i + 1,
            IF IsLoopInvariant(g, reaching, body, block, i, marked)
            THEN [marked EXCEPT ![block] = @ \cup {i}]
            ELSE marked)

\* the for loop of main line 167 over the blocks of the body
RECURSIVE MarkBlocks(_, _, _, _, _, _)
MarkBlocks(g, reaching, body, keys, k, marked) ==
    IF k > Len(keys) THEN marked
    ELSE MarkBlocks(g, reaching, body, keys, k + 1,
                    MarkInstructions(g, reaching, body, keys[k], 1, marked))

\* the while changed loop of main lines 164-223; the map has a set for every
\* block of the body, empty where the code has no entry or an empty one
RECURSIVE MarkFixpoint(_, _, _, _)
MarkFixpoint(g, reaching, body, marked) ==
    LET next == MarkBlocks(g, reaching, body, SortedKeys(body), 1, marked)
    IN  IF next = marked THEN marked
        ELSE MarkFixpoint(g, reaching, body, next)

MarkLoopInvariant(g, reaching, body) ==
    MarkFixpoint(g, reaching, body, [block \in body |-> {}])

\* is_unique_definition, main lines 225-244
IsUniqueDefinition(g, body, block, i) ==
    LET definition_name == Kill(g.vertices[block].instructions[i])
        killers(b) ==
          {<<b, j>> : j \in {j \in DOMAIN g.vertices[b].instructions :
                      Kill(g.vertices[b].instructions[j]) = definition_name}}
    IN  Cardinality(UNION {killers(b) : b \in body}) = 1

\* exit_blocks, main lines 246-250
ExitBlocks(g, body) ==
    {successor \in UNION {SeqToSet(Successors(g, b)) : b \in body} :
        successor \notin body}

\* dominates_uses, main lines 252-263
DominatesUses(definition_block, use_blocks, doms) ==
    \A use_block \in use_blocks : definition_block \in doms[use_block]

\* dominates_exits, main lines 265-281
DominatesExits(definition_block, exit_blocks, doms) ==
    \A exit_block \in exit_blocks :
        exit_block \in DOMAIN doms => definition_block \in doms[exit_block]

\* use_blocks of main lines 290-305: the blocks of the body with an
\* instruction whose gen_set holds the name instruction i of block kills
UseBlocks(g, body, block, i) ==
    LET kill == Kill(g.vertices[block].instructions[i])[1]
    IN  {other_block \in body :
            \E j \in DOMAIN g.vertices[other_block].instructions :
                kill \in SeqToSet(GenSet(g.vertices[other_block].instructions[j]))}

\* the condition without the test of the uses
MayMoveIgnoringUses(g, body, block, i, doms, exit_blocks) ==
    /\ IsUniqueDefinition(g, body, block, i)
    /\ DominatesExits(block, exit_blocks, doms)

\* the condition of main lines 325-330
MayMove(g, body, block, i, doms, exit_blocks) ==
    /\ IsUniqueDefinition(g, body, block, i)
    /\ DominatesUses(block, UseBlocks(g, body, block, i), doms)
    /\ DominatesExits(block, exit_blocks, doms)

\* to_move of main lines 287-337: the marked indices that may move, ascending
ToMove(g, body, block, indices, doms, exit_blocks) ==
    LET may(i) == MayMove(g, body, block, i, doms, exit_blocks)
    IN  SelectSeq(SortedKeys(indices), may)

\* Vec::remove
RemoveAt(s, i) == SubSeq(s, 1, i - 1) \o SubSeq(s, i + 1, Len(s))

\* the while let loop of main lines 339-343: r is the CFG, the moves made and
\* the CFG as it stood when to_move was filled
RECURSIVE PopAndMove(_, _, _, _)
PopAndMove(r, block, preheader, to_move) ==
    IF to_move = <<>> THEN r
    ELSE
      LET i == to_move[Len(to_move)]
          instruction == r.cfg.vertices[block].instructions[i]
          removed == [r.cfg EXCEPT
                        !.vertices[block].instructions = RemoveAt(@, i)]
          inserted == [removed EXCEPT
                         !.vertices[preheader].instructions =
                            <<instruction>> \o @]
      IN  PopAndMove([r EXCEPT
                        !.cfg = inserted,
                        !.moved = Append(@, [block |-> block, index |-> i,
                                             instruction |-> instruction,
                                             seen |-> r.seen])],
                     block, preheader, SubSeq(to_move, 1, Len(to_move) - 1))

\* the for loop of main line 287 over the entries of loop_invariant
RECURSIVE MoveBlocks(_, _, _, _, _, _, _, _)
MoveBlocks(r, body, preheader, marked, keys, k, doms, exit_blocks) ==
    IF k > Len(keys) THEN r
    ELSE MoveBlocks(
            PopAndMove([r EXCEPT !.seen = r.cfg], keys[k], preheader,
                       ToMove(r.cfg, body, keys[k], marked[keys[k]], doms,
                              exit_blocks)),
            body, preheader, marked, keys, k + 1, doms, exit_blocks)

\* PART 2 of main, lines 246-343, for one loop
MoveLoopInvariant(g, body, preheader, marked, doms) ==
    MoveBlocks([cfg |-> g, moved |-> <<>>, seen |-> g], body, preheader,
               marked,
               SortedKeys(DOMAIN marked), 1, doms, ExitBlocks(g, body))

\* most instructions a block of a structured input has before its terminator
MaxLicmBody == 2

\* the instructions the blocks of the structured inputs are made of
LicmItems ==
    {Constant("x", "int", IntLit(1)),
     Value("y", "int", "id", <<"x">>),
     Value("x", "int", "add", <<"x", "y">>),
     Value("z", "int", "get", <<>>),
     Effect("print", <<"y">>, <<>>)}

\* a prologue, a header .a and a latch .b that ends the loop, an exit .j
LicmPrograms ==
    {prologue \o <<CodeLabel("a")>> \o header_body \o header_exit
       \o <<CodeLabel("b")>> \o latch_body \o <<latch_exit>>
       \o <<CodeLabel("j")>> :
        prologue \in {<<>>, <<Constant("x", "int", IntLit(2))>>},
        header_body \in SeqsUpTo(LicmItems, MaxLicmBody),
        header_exit \in {<<>>, <<Branch("c", "b", "j")>>},
        latch_body \in SeqsUpTo(LicmItems, MaxLicmBody),
        latch_exit \in {Jump("a"), Branch("c", "a", "j")}}

\* the tool has built the pruned CFG of a function
InitLicm ==
    /\ pc = "loop_start"
    /\ function \in SeqsUpTo(LoopItems, MaxLoopCode) \cup LicmPrograms
    /\ prune = TRUE
    /\ BuildCfgOf(function, prune).ok
    /\ cfg = BuildCfgOf(function, prune).cfg
    /\ LvnIdle
    /\ DfIdle
    /\ DomIdle
    /\ SsaIdle
    /\ TdceIdle
    /\ LoopIdle
    /\ LicmIdle

\* stage 1: main goes on past the stage test of lines 147-150
LicmBegin ==
    /\ pc = "preheaders"
    /\ loop_next > Len(natural_loops)
    /\ licm_next' = 1
    /\ pc' = "licm"
    /\ UNCHANGED <<cfgVars, domVars, loopVars, reaching_definitions,
                   loop_invariant, licm_moved, lvnVars, dfVars, ssaVars,
                   tdceVars>>

\* PART 1 of an iteration of the loop of main line 152: lines 160-223
LicmMark ==
    /\ pc = "licm"
    /\ licm_next <= Len(natural_loops_with_preheaders)
    /\ reaching_definitions' = ComputeReachingDefinitions(cfg)
    /\ loop_invariant' =
          MarkLoopInvariant(cfg, reaching_definitions',
                            natural_loops_with_preheaders[licm_next].body)
    /\ pc' = "licm_marked"
    /\ UNCHANGED <<cfgVars, domVars, loopVars, licm_next, licm_moved, lvnVars,
                   dfVars, ssaVars, tdceVars>>

\* PART 2 of the iteration and the reorient_edge of line 346
LicmMove ==
    /\ pc = "licm_marked"
    /\ LET l == natural_loops_with_preheaders[licm_next]
           r == MoveLoopInvariant(cfg, l.body, l.preheader, loop_invariant,
                                  dominators)
       IN  /\ licm_moved' = Append(licm_moved, r.moved)
           /\ IF CanReorientEdge(r.cfg, l.backedge_start, l.preheader,
                                 l.header)
              THEN /\ cfg' = ReorientEdge(r.cfg, l.backedge_start,
                                          l.preheader, l.header)
                   /\ licm_next' = licm_next + 1
                   /\ pc' = "licm"
              ELSE /\ cfg' = r.cfg
                   /\ UNCHANGED licm_next
                   /\ pc' = "loop_panic"
    /\ UNCHANGED <<function, prune, domVars, loopVars, reaching_definitions,
                   loop_invariant, lvnVars, dfVars, ssaVars, tdceVars>>

\* every loop is handled: main prints the function, lines 349-352
LicmDone ==
    /\ pc = "licm"
    /\ licm_next > Len(natural_loops_with_preheaders)
    /\ pc' = "licm_done"
    /\ UNCHANGED <<cfgVars, domVars, loopVars, licmVars, lvnVars, dfVars,
                   ssaVars, tdceVars>>

NextLicm ==
    \/ NextLoop
    \/ LicmBegin
    \/ LicmMark
    \/ LicmMove
    \/ LicmDone

SpecLicm == InitLicm /\ [][NextLicm]_vars

\* the CFG the preheader loop of main starts on
LicmOriginal == MakeFallthroughsExplicitOf(BuildCfgOf(function, prune).cfg)

\* the blocks main added as preheaders
Preheaders ==
    {natural_loops_with_preheaders[k].preheader :
        k \in DOMAIN natural_loops_with_preheaders}

\* the terminator of block t names the label of block h
TerminatorNames(g, t, h) ==
    /\ g.vertices[t].instructions # <<>>
    /\ g.vertices[h].label # None
    /\ g.vertices[h].label[1]
         \in SeqToSet(g.vertices[t].instructions[
                          Len(g.vertices[t].instructions)].labels)

\* t -> h is an edge of g in the terminator of t, in edges and in rev_edges
IsFullEdge(g, t, h) ==
    /\ TerminatorNames(g, t, h)
    /\ h \in SeqToSet(Successors(g, t))
    /\ t \in SeqToSet(Predecessors(g, h))

\* the shape the CFG has around the loop l when the optimizer is done
LoopShapeHolds(g, l) ==
    /\ IsFullEdge(g, l.backedge_start, l.header)
    /\ \A p \in Preheaders : l.backedge_start \notin SeqToSet(Predecessors(g, p))
    /\ \A u \in DOMAIN LicmOriginal.vertices :
          /\ l.header \in SeqToSet(Successors(LicmOriginal, u))
          /\ <<u, l.header>> \notin SeqToSet(back_edges)
          => \E k \in DOMAIN natural_loops_with_preheaders :
                /\ natural_loops_with_preheaders[k].header = l.header
                /\ IsFullEdge(g, u, natural_loops_with_preheaders[k].preheader)
    /\ Successors(g, l.preheader) = <<l.header>>

\* C21: when the loop optimizer has finished, at stage 0 as at stage 1, every
\* detected back edge (t, h) is again the edge t -> h in the terminator, in
\* edges and in rev_edges, t precedes no preheader, every other original
\* predecessor of h targets a preheader of h, and the only successor of the
\* preheader is h
C21_BackEdgesRestoredAroundPreheaders ==
    pc \in {"preheaders_done", "licm_done"} =>
        \A k \in DOMAIN natural_loops_with_preheaders :
            LoopShapeHolds(cfg, natural_loops_with_preheaders[k])

\* the operations the optimizer is to leave where they are
NeverInvariantOps == {"call", "alloc", "load", "ptradd", "get"}

\* C23: a Value whose op is call, alloc, load, ptradd or get is neither marked
\* loop-invariant nor moved to a preheader, whatever its arguments
C23_SideEffectingValuesStay ==
    /\ pc = "licm_marked" =>
          \A b \in DOMAIN loop_invariant : \A i \in loop_invariant[b] :
              cfg.vertices[b].instructions[i].op \notin NeverInvariantOps
    /\ \A k \in DOMAIN licm_moved : \A n \in DOMAIN licm_moved[k] :
          licm_moved[k][n].instruction.op \notin NeverInvariantOps

\* the (block, index) pairs of the instructions of the blocks of S
SitesOf(g, S) ==
    UNION {{<<b, i>> : i \in DOMAIN g.vertices[b].instructions} : b \in S}

\* the definitions of name that reach the use at instruction j of block b2:
\* the sites an execution passes from which a path leads to the use without
\* another definition of name
ReachingUse(g, name, b2, j) ==
    {site \in SitesOf(g, Reachable(g)) :
        /\ Kill(g.vertices[site[1]].instructions[site[2]]) = Some(name)
        /\ DefinitionReaches(g, site[1], site[2], b2, j)}

\* the rule for one instruction, given the sites already marked
InvariantByRule(g, body, site, marked_sites) ==
    LET instruction == g.vertices[site[1]].instructions[site[2]]
    IN  \/ instruction.kind = "const"
        \/ /\ instruction.kind = "value"
           /\ \A a \in DOMAIN instruction.args :
                LET reaching == ReachingUse(g, instruction.args[a],
                                            site[1], site[2])
                IN  \/ \A definition \in reaching : definition[1] \notin body
                    \/ /\ Cardinality(reaching) = 1
                       /\ reaching \subseteq marked_sites

\* the sites the rule marks, starting from marked_sites
RECURSIVE MarkedByRule(_, _, _)
MarkedByRule(g, body, marked_sites) ==
    LET next == marked_sites \cup
                  {site \in SitesOf(g, body) :
                      InvariantByRule(g, body, site, marked_sites)}
    IN  IF next = marked_sites THEN marked_sites
        ELSE MarkedByRule(g, body, next)

\* the sites PART 1 has marked
MarkedSites ==
    UNION {{<<b, i>> : i \in loop_invariant[b]} : b \in DOMAIN loop_invariant}

\* C22: the instructions marked loop-invariant are exactly the Consts of the
\* loop body and the Values each of whose arguments has (a) every definition
\* reaching its use outside the loop body or (b) exactly one definition
\* reaching that use, itself marked
C22_MarkedExactlyByReachingDefinitions ==
    pc = "licm_marked" =>
        MarkedSites =
          MarkedByRule(cfg, natural_loops_with_preheaders[licm_next].body, {})

\* the position of a moved instruction in the preheader of loop k
PreheaderPosition(k, instruction) ==
    LET instructions ==
          cfg.vertices[natural_loops_with_preheaders[k].preheader].instructions
    IN  CHOOSE p \in DOMAIN instructions : instructions[p] = instruction

\* in the preheader of loop k the moved instruction first stands before the
\* moved instruction second
StandsBefore(k, first, second) ==
    PreheaderPosition(k, first.instruction)
      < PreheaderPosition(k, second.instruction)

\* C25: once a loop has been processed, the instructions moved from one block
\* keep their relative order in the preheader, and a moved instruction that
\* reads the destination of another moved instruction stands after it
C25_MovedInstructionsRespectDependencies ==
    \A k \in DOMAIN licm_moved :
        \A m, n \in DOMAIN licm_moved[k] :
            LET first == licm_moved[k][m]
                second == licm_moved[k][n]
            IN  /\ first.block = second.block /\ first.index < second.index
                    => StandsBefore(k, first, second)
                /\ m # n /\ first.instruction.dest
                               \in SeqToSet(second.instruction.args)
                    => StandsBefore(k, first, second)

\* the blocks of the body that hold an instruction reading d in g
ReadersOf(g, body, d) ==
    {u \in body : \E j \in DOMAIN g.vertices[u].instructions :
        d \in SeqToSet(g.vertices[u].instructions[j].args)}

\* the successors in g of the blocks of the body that are not in the body
ExitsOf(g, body) ==
    {x \in DOMAIN g.vertices \ body :
        \E c \in body : x \in SeqToSet(Successors(g, c))}

\* the three conditions for the moved instruction of the record, on the CFG
\* the optimizer had when it decided the move
MoveConditionsHold(body, moved) ==
    LET g == moved.seen
        d == moved.instruction.dest
    IN  /\ Cardinality({site \in SitesOf(g, body) :
              g.vertices[site[1]].instructions[site[2]].kind
                  \in {"const", "value"}
              /\ g.vertices[site[1]].instructions[site[2]].dest = d}) = 1
        /\ \A u \in ReadersOf(g, body, d) : moved.block \in dominators[u]
        /\ \A x \in ExitsOf(g, body) :
              x \in DOMAIN dominators => moved.block \in dominators[x]

\* C24: an instruction (b, i) with destination d is moved into the preheader
\* only if exactly one instruction of the loop body defines d, b dominates
\* every block of the body with an instruction reading d, and b dominates
\* every exit block that has a dominator set
C24_MovedOnlyIfUniqueAndDominating ==
    \A k \in DOMAIN licm_moved : \A n \in DOMAIN licm_moved[k] :
        MoveConditionsHold(natural_loops_with_preheaders[k].body,
                           licm_moved[k][n])

\* C24: an instruction has been moved that is read in the loop body, out of a
\* loop with an exit block that has a dominator set
C24_Witness ==
    \E k \in DOMAIN licm_moved : \E n \in DOMAIN licm_moved[k] :
        LET moved == licm_moved[k][n]
            body == natural_loops_with_preheaders[k].body
        IN  /\ ReadersOf(moved.seen, body, moved.instruction.dest) # {}
            /\ ExitsOf(moved.seen, body) \cap DOMAIN dominators # {}

====
